---- MODULE Spec2Model ----
(***************************************************************************)
(* Model of the game-journaling synchronization engine: the markdown /     *)
(* catalog corpus, the SQLite store (four entity tables, four junction     *)
(* tables), and syncAll with its helpers, validators and parsers.          *)
(***************************************************************************)
EXTENDS Bags, FiniteSets, Integers, Sequences, TLC

(***************************************************************************)
(* Bounds of the model.                                                    *)
(***************************************************************************)
MaxRuns == 3
MaxEdits == 2

(***************************************************************************)
(* Strings (JavaScript string primitives used by the code).                *)
(***************************************************************************)
Char(s, i) == SubSeq(s, i, i)

IsSpace(c) == c \in {" ", "\n", "\t"}

\* the lower-case form of each upper-case letter
LowerOf ==
  [A |-> "a", B |-> "b", C |-> "c", D |-> "d", E |-> "e", F |-> "f", G |-> "g",
   H |-> "h", I |-> "i", J |-> "j", K |-> "k", L |-> "l", M |-> "m", N |-> "n",
   O |-> "o", P |-> "p", Q |-> "q", R |-> "r", S |-> "s", T |-> "t", U |-> "u",
   V |-> "v", W |-> "w", X |-> "x", Y |-> "y", Z |-> "z"]

LowerChar(c) == IF c \in DOMAIN LowerOf THEN LowerOf[c] ELSE c

RECURSIVE LowerFrom(_, _)
LowerFrom(s, i) ==
  IF i > Len(s) THEN "" ELSE LowerChar(Char(s, i)) \o LowerFrom(s, i + 1)

toLowerCase(s) == LowerFrom(s, 1)

\* index of the first character at or after i that is not white space
RECURSIVE SkipSpaces(_, _)
SkipSpaces(s, i) ==
  IF i <= Len(s) /\ IsSpace(Char(s, i)) THEN SkipSpaces(s, i + 1) ELSE i

\* index of the last character at or before i that is not white space
RECURSIVE SkipSpacesBack(_, _)
SkipSpacesBack(s, i) ==
  IF i >= 1 /\ IsSpace(Char(s, i)) THEN SkipSpacesBack(s, i - 1) ELSE i

trimStart(s) == SubSeq(s, SkipSpaces(s, 1), Len(s))

trimEnd(s) == SubSeq(s, 1, SkipSpacesBack(s, Len(s)))

trim(s) == trimEnd(trimStart(s))

startsWith(s, p) == Len(s) >= Len(p) /\ SubSeq(s, 1, Len(p)) = p

endsWith(s, p) == Len(s) >= Len(p) /\ SubSeq(s, Len(s) - Len(p) + 1, Len(s)) = p

\* String.prototype.split with a one-character separator: the pieces of s
\* from index start on, i being the scan position
RECURSIVE SplitFrom(_, _, _, _)
SplitFrom(s, sep, start, i) ==
  IF i > Len(s) THEN <<SubSeq(s, start, Len(s))>>
  ELSE IF Char(s, i) = sep
       THEN <<SubSeq(s, start, i - 1)>> \o SplitFrom(s, sep, i + 1, i + 1)
       ELSE SplitFrom(s, sep, start, i + 1)

split(s, sep) == SplitFrom(s, sep, 1, 1)

(***************************************************************************)
(* JavaScript values: a value carries its dynamic type.                    *)
(***************************************************************************)
Undef == [tag |-> "undefined"]
NullV == [tag |-> "null"]
Str(s) == [tag |-> "string", val |-> s]
Arr(a) == [tag |-> "object", val |-> a]
DateV(ms) == [tag |-> "date", val |-> ms]

IsNullish(v) == v.tag \in {"undefined", "null"}
IsStr(v) == v.tag = "string"
\* an array all of whose elements are strings (z.array(z.string()))
IsStrArr(v) == v.tag = "object"

\* JS truthiness of the values the validators test with `!val` / `||`
Truthy(v) ==
  CASE v.tag = "undefined" -> FALSE
    [] v.tag = "null" -> FALSE
    [] v.tag = "string" -> Len(v.val) > 0
    [] OTHER -> TRUE

\* Date.prototype.toISOString for instants within the first second of the epoch
toISOString(ms) ==
  "1970-01-01T00:00:00." \o
  (IF ms < 10 THEN "00" ELSE IF ms < 100 THEN "0" ELSE "") \o ToString(ms) \o "Z"

RECURSIVE JoinQuoted(_)
JoinQuoted(a) ==
  IF Len(a) = 0 THEN ""
  ELSE "\"" \o a[1] \o "\"" \o (IF Len(a) > 1 THEN "," ELSE "") \o JoinQuoted(Tail(a))

\* JSON.stringify of an array of strings
JsonStringify(a) == "[" \o JoinQuoted(a) \o "]"

(***************************************************************************)
(* wiki-link.ts                                                            *)
(***************************************************************************)
\* raw.match(/^\[\[(.+)\]\]$/) ? match[1] : raw
parseWikiLink(raw) ==
  IF Len(raw) >= 5 /\ startsWith(raw, "[[") /\ endsWith(raw, "]]")
  THEN SubSeq(raw, 3, Len(raw) - 2)
  ELSE raw

\* name.trim().replace(/\s+/g, "-")
RECURSIVE HyphenateRuns(_, _, _)
HyphenateRuns(s, i, inRun) ==
  IF i > Len(s) THEN ""
  ELSE IF IsSpace(Char(s, i))
       THEN (IF inRun THEN "" ELSE "-") \o HyphenateRuns(s, i + 1, TRUE)
       ELSE Char(s, i) \o HyphenateRuns(s, i + 1, FALSE)

toSlug(name) == HyphenateRuns(trim(name), 1, FALSE)

\* filePath.split("/").pop() ?? filePath, then .replace(/\.md$/, "")
slugFromPath(filePath) ==
  LET parts == split(filePath, "/")
      filename == parts[Len(parts)]
  IN IF endsWith(filename, ".md") THEN SubSeq(filename, 1, Len(filename) - 3) ELSE filename

(***************************************************************************)
(* validators.ts                                                           *)
(***************************************************************************)
RECURSIVE MapWikiLink(_)
MapWikiLink(a) ==
  IF Len(a) = 0 THEN <<>> ELSE <<parseWikiLink(a[1])>> \o MapWikiLink(Tail(a))

\* z.string().transform(parseWikiLink).optional().nullable()
wikiLinkSchemaOk(v) == IsNullish(v) \/ IsStr(v)
wikiLinkSchema(v) == IF IsStr(v) THEN Str(parseWikiLink(v.val)) ELSE v

\* z.union([z.string(), z.array(z.string())]).optional().nullable()
stringOrArrayOk(v) == IsNullish(v) \/ IsStr(v) \/ IsStrArr(v)

optionalWikiLinkArray(v) ==
  IF IsNullish(v) THEN <<>>
  ELSE MapWikiLink(IF IsStrArr(v) THEN v.val ELSE <<v.val>>)

optionalStringArray(v) ==
  IF IsNullish(v) THEN <<>>
  ELSE IF IsStrArr(v) THEN v.val ELSE <<v.val>>

\* z.string().optional().nullable()
optionalStringOk(v) == IsNullish(v) \/ IsStr(v)

\* a variant of the status transform that compares without lower-casing
statusSchemaCaseSensitive(v) ==
  IF ~Truthy(v) THEN NullV
  ELSE LET n == trim(v.val)
       IN CASE n = "finished" -> Str("finished")
            [] n = "started" -> Str("started")
            [] n = "bought" -> Str("bought")
            [] n # "finished" /\ n # "started" /\ n # "bought"
               /\ startsWith(n, "not start") -> Str("not started")
            [] n = "not finished" -> Str("started")
            [] OTHER -> NullV

statusSchema(v) ==
  IF ~Truthy(v) THEN NullV
  ELSE LET n == toLowerCase(trim(v.val))
       IN CASE n = "finished" -> Str("finished")
            [] n = "started" -> Str("started")
            [] n = "bought" -> Str("bought")
            [] n # "finished" /\ n # "started" /\ n # "bought"
               /\ startsWith(n, "not start") -> Str("not started")
            [] n = "not finished" -> Str("started")
            [] OTHER -> NullV

platformSchema(v) ==
  IF ~Truthy(v) THEN NullV
  ELSE LET trimmed == trim(v.val)
       IN IF trimmed = "Xbok 360" THEN Str("Xbox 360")
          ELSE IF Len(trimmed) > 0 THEN Str(trimmed) ELSE NullV

\* (v) => v?.trim() || null
trimOrNull(v) ==
  IF IsNullish(v) THEN NullV
  ELSE IF Len(trim(v.val)) > 0 THEN Str(trim(v.val)) ELSE NullV

releaseOk(v) == IsNullish(v) \/ IsStr(v) \/ v.tag = "date"
releaseSchema(v) ==
  IF ~Truthy(v) THEN NullV
  ELSE IF v.tag = "date" THEN Str(split(toISOString(v.val), "T")[1])
  ELSE LET trimmed == trim(v.val)
       IN IF trimmed = "YYYY-MM-DD" \/ trimmed = "" THEN NullV ELSE Str(trimmed)

\* The keys a front matter block may carry; an absent key reads as undefined.
FrontmatterKeys ==
  {"class", "status", "game-genre", "game-modes", "game-genre-tags",
   "player-perspective", "platform", "engine", "developer", "publisher",
   "director", "release", "games", "studios"}

EmptyFrontmatter == [k \in FrontmatterKeys |-> Undef]

gameFrontmatterSchema(fm) ==
  LET success ==
        /\ fm["class"] = Str("game")
        /\ optionalStringOk(fm["status"])
        /\ stringOrArrayOk(fm["game-genre"])
        /\ stringOrArrayOk(fm["game-modes"])
        /\ stringOrArrayOk(fm["game-genre-tags"])
        /\ stringOrArrayOk(fm["player-perspective"])
        /\ optionalStringOk(fm["platform"])
        /\ optionalStringOk(fm["engine"])
        /\ stringOrArrayOk(fm["developer"])
        /\ stringOrArrayOk(fm["publisher"])
        /\ wikiLinkSchemaOk(fm["director"])
        /\ releaseOk(fm["release"])
  IN IF ~success THEN [success |-> FALSE]
     ELSE [success |-> TRUE,
           data |-> [status |-> statusSchema(fm["status"]),
                     gameGenre |-> optionalStringArray(fm["game-genre"]),
                     gameModes |-> optionalStringArray(fm["game-modes"]),
                     gameGenreTags |-> optionalStringArray(fm["game-genre-tags"]),
                     playerPerspective |-> optionalStringArray(fm["player-perspective"]),
                     platform |-> platformSchema(fm["platform"]),
                     engine |-> trimOrNull(fm["engine"]),
                     developer |-> optionalWikiLinkArray(fm["developer"]),
                     publisher |-> optionalWikiLinkArray(fm["publisher"]),
                     director |-> wikiLinkSchema(fm["director"]),
                     release |-> releaseSchema(fm["release"])]]

studioFrontmatterSchema(fm) ==
  LET success ==
        /\ fm["class"] = Str("studio")
        /\ wikiLinkSchemaOk(fm["director"])
        /\ stringOrArrayOk(fm["games"])
        /\ stringOrArrayOk(fm["studios"])
  IN IF ~success THEN [success |-> FALSE]
     ELSE [success |-> TRUE,
           data |-> [director |-> wikiLinkSchema(fm["director"]),
                     games |-> optionalWikiLinkArray(fm["games"]),
                     studios |-> optionalWikiLinkArray(fm["studios"])]]

publisherFrontmatterSchema(fm) ==
  LET success ==
        /\ fm["class"] = Str("publisher")
        /\ stringOrArrayOk(fm["games"])
        /\ stringOrArrayOk(fm["studios"])
  IN IF ~success THEN [success |-> FALSE]
     ELSE [success |-> TRUE,
           data |-> [games |-> optionalWikiLinkArray(fm["games"]),
                     studios |-> optionalWikiLinkArray(fm["studios"])]]

\* csvRowSchema: every field of a catalog record is a string or missing
csvRowSchema(record) ==
  LET success ==
        /\ IsStr(record["name"])
        /\ optionalStringOk(record["status"])
        /\ optionalStringOk(record["platform"])
        /\ optionalStringOk(record["notes"])
  IN IF ~success THEN [success |-> FALSE]
     ELSE [success |-> TRUE,
           data |-> [name |-> trim(record["name"].val),
                     status |-> statusSchema(record["status"]),
                     platform |-> platformSchema(record["platform"]),
                     notes |-> trimOrNull(record["notes"])]]

(***************************************************************************)
(* The corpus: the files under lib/ and what parsing each of them yields.  *)
(***************************************************************************)
GameSlugs == {"G1", "G2"}
StudioSlugs == {"S1", "S2"}
PublisherSlugs == {"P1"}
DesignerSlugs == {"D1"}

NoFile == [kind |-> "none"]
\* a file whose read or front matter parse raises (fs.readFileSync / matter)
BadFile == [kind |-> "throw"]
SectionKeys == {"gameplay", "synopsis", "review", "notes", "overview"}
NoSections == [k \in SectionKeys |-> Undef]
Md(fm, sections) == [kind |-> "md", frontmatter |-> fm, sections |-> sections]

VARIABLES corpus, db, snapshot, pc, todo, csvGames, report, referenced,
          now, edits, conn, hist

vars == <<corpus, db, snapshot, pc, todo, csvGames, report, referenced,
          now, edits, conn, hist>>

(***************************************************************************)
(* The store: schema (tables, columns, primary keys) and the driver.       *)
(***************************************************************************)
GameRowKeys ==
  <<"slug", "status", "platform", "engine", "release", "director", "gameGenre",
    "gameModes", "gameGenreTags", "playerPerspective", "gameplayText",
    "synopsisText", "reviewText", "notesText", "sourceFile", "lastSyncedAt">>
StudioRowKeys == <<"slug", "director", "overviewText", "sourceFile", "lastSyncedAt">>
PublisherRowKeys == <<"slug", "overviewText", "sourceFile", "lastSyncedAt">>
DesignerRowKeys == <<"slug", "overviewText", "sourceFile", "lastSyncedAt">>

Range(f) == {f[i] : i \in DOMAIN f}

\* columns declared with { mode: "json" }
JsonColumns == {"gameGenre", "gameModes", "gameGenreTags", "playerPerspective"}
\* columns declared with { mode: "timestamp_ms" }
TimestampColumns == {"lastSyncedAt"}

Num(n) == [tag |-> "number", val |-> n]

\* the arrays a json column of this corpus can hold
JsonArrays == {<<>>, <<"RPG">>, <<"FPS">>}
\* JSON.parse of the text of a json column
JsonParse(text) == CHOOSE a \in JsonArrays : JsonStringify(a) = text

\* column.mapToDriverValue
toDriverCell(col, v) ==
  IF IsNullish(v) THEN NullV
  ELSE IF col \in JsonColumns THEN Str(JsonStringify(v.val))
  ELSE IF col \in TimestampColumns THEN Num(v.val)
  ELSE v

\* column.mapFromDriverValue
fromDriverCell(col, c) ==
  IF c = NullV THEN NullV
  ELSE IF col \in JsonColumns THEN Arr(JsonParse(c.val))
  ELSE IF col \in TimestampColumns THEN DateV(c.val)
  ELSE c

\* db.select().from(table).where(eq(table.slug, slug)).get()
selectRow(table, slug) == [col \in DOMAIN table[slug] |-> fromDriverCell(col, table[slug][col])]

\* the row db.insert(table).values(values) writes; columns not given are NULL
insertedRow(keys, values) ==
  [col \in Range(keys) |->
     IF col \in DOMAIN values THEN toDriverCell(col, values[col]) ELSE NullV]

\* a variant of the insert that clears the table before it writes the row
insertEntityAfterClearing(table, slug, keys, values) ==
  [raised |-> FALSE, t |-> [s \in {slug} |-> insertedRow(keys, values)]]

\* db.insert(table).values(values).run(); slug is the primary key
insertEntity(table, slug, keys, values) ==
  IF slug \in DOMAIN table
  THEN [raised |-> TRUE, t |-> table]
  ELSE [raised |-> FALSE,
        t |-> [s \in DOMAIN table \cup {slug} |->
                 IF s = slug THEN insertedRow(keys, values) ELSE table[s]]]

\* db.update(table).set(values).where(eq(table.slug, slug)).run()
updateEntity(table, slug, values) ==
  [table EXCEPT ![slug] =
     [col \in DOMAIN @ |->
        IF col \in DOMAIN values THEN toDriverCell(col, values[col]) ELSE @[col]]]

\* Junction tables hold pairs; a table is the bag of its rows.
\* a variant of the insert for a table without its composite primary key
insertPairWithoutKey(t, p) == [raised |-> FALSE, t |-> t (+) SetToBag({p})]

\* db.insert(junction).values(pair).run(); the pair is the composite primary key
insertPair(t, p) ==
  IF BagIn(p, t) THEN [raised |-> TRUE, t |-> t]
  ELSE [raised |-> FALSE, t |-> t (+) SetToBag({p})]

\* a variant of the delete that removes no row
deleteNothing(t, col, slug) == t

\* db.delete(junction).where(eq(junction.<column col>, slug)).run()
deleteWhere(t, col, slug) == [p \in {q \in DOMAIN t : q[col] # slug} |-> t[p]]

EmptyDb ==
  [games |-> <<>>, studios |-> <<>>, publishers |-> <<>>, designers |-> <<>>,
   gameDevelopers |-> EmptyBag, gamePublishers |-> EmptyBag,
   publisherStudios |-> EmptyBag, relatedStudios |-> EmptyBag]

(***************************************************************************)
(* sync-engine.ts: report and helpers                                      *)
(***************************************************************************)
EmptyReport ==
  [gamesProcessed |-> 0, studiosProcessed |-> 0, publishersProcessed |-> 0,
   designersProcessed |-> 0, created |-> 0, updated |-> 0, unchanged |-> 0,
   errors |-> <<>>, changes |-> <<>>]

EmptyReferenced == [studios |-> {}, publishers |-> {}, designers |-> {}]

serialize(value) ==
  CASE value.tag \in {"null", "undefined"} -> NullV
    [] value.tag = "date" -> Str(toISOString(value.val))
    [] value.tag = "object" -> Str(JsonStringify(value.val))
    [] OTHER -> Str(value.val)

\* a variant of the filter that also compares the timestamp and the provenance path
isComparedKeyButSlugOnly(k) == k # "slug"

\* the filter of fieldsToCompare
isComparedKey(k) == k # "lastSyncedAt" /\ k # "sourceFile" /\ k # "slug"

RECURSIVE changesOf(_, _, _, _, _)
changesOf(slug, entityType, existing, incoming, keys) ==
  IF Len(keys) = 0 THEN <<>>
  ELSE LET field == Head(keys)
           oldVal == serialize(existing[field])
           newVal == serialize(incoming[field])
           rest == changesOf(slug, entityType, existing, incoming, Tail(keys))
       IN IF isComparedKey(field) /\ oldVal # newVal
          THEN <<[entity |-> slug, entityType |-> entityType, field |-> field,
                  oldValue |-> oldVal, newValue |-> newVal]>> \o rest
          ELSE rest

\* detectChanges: the change records it appends to report.changes
detectChanges(slug, entityType, existing, incoming, keys) ==
  changesOf(slug, entityType, existing, incoming, keys)

\* a ?? null
orNull(v) == IF IsNullish(v) THEN NullV ELSE v

\* a variant of the upsert that rewrites an existing row without looking at the diff
upsertAlways(st, table, slug, entityType, row, keys) ==
  IF slug \in DOMAIN st.db[table]
  THEN [st EXCEPT !.db[table] = updateEntity(@, slug, row),
                  !.report.changes =
                      @ \o detectChanges(slug, entityType, selectRow(st.db[table], slug),
                                         row, keys),
                  !.report.updated = @ + 1]
  ELSE [st EXCEPT !.db[table] = insertEntity(@, slug, keys, row).t,
                  !.report.created = @ + 1]

\* the existing / update / insert block shared by the four entity kinds
upsert(st, table, slug, entityType, row, keys) ==
  IF slug \in DOMAIN st.db[table]
  THEN LET found == detectChanges(slug, entityType, selectRow(st.db[table], slug), row, keys)
       IN IF Len(found) > 0
          THEN [st EXCEPT !.db[table] = updateEntity(@, slug, row),
                          !.report.changes = @ \o found,
                          !.report.updated = @ + 1]
          ELSE [st EXCEPT !.report.unchanged = @ + 1]
  ELSE [st EXCEPT !.db[table] = insertEntity(@, slug, keys, row).t,
                  !.report.created = @ + 1]

\* what a thrown value prints as in `${err}`
ParseError == "Error: cannot read or parse file"
ConstraintError == "SqliteError: UNIQUE constraint failed"
StoreError == "SqliteError: database or disk is full"

\* inserting pairs one statement at a time; the first statement that raises ends the loop
RECURSIVE insertPairs(_, _)
insertPairs(t, pairs) ==
  IF Len(pairs) = 0 THEN [raised |-> FALSE, t |-> t, done |-> 0]
  ELSE LET first == insertPair(t, Head(pairs))
       IN IF first.raised THEN [raised |-> TRUE, t |-> t, done |-> 0]
          ELSE LET rest == insertPairs(first.t, Tail(pairs))
               IN [rest EXCEPT !.done = @ + 1]

\* the existence check of the reverse direction: .all().find((r) => r.<other> === slug)
hasJunction(t, p) == BagIn(p, t)

\* a variant of the reverse direction that replaces the table by the listed pairs
insertListedPairsOnly(t, pairs) == [raised |-> FALSE, t |-> SetToBag(Range(pairs))]

\* for (const gameSlug of fm.games) { if (!existingJunction) insert }
RECURSIVE insertMissingPairs(_, _)
insertMissingPairs(t, pairs) ==
  IF Len(pairs) = 0 THEN [raised |-> FALSE, t |-> t]
  ELSE IF hasJunction(t, Head(pairs))
       THEN insertMissingPairs(t, Tail(pairs))
       ELSE LET first == insertPair(t, Head(pairs))
            IN IF first.raised THEN first
               ELSE insertMissingPairs(first.t, Tail(pairs))

gameFilePath(slug) == "lib/games/" \o slug \o ".md"
studioFilePath(slug) == "lib/studios/" \o slug \o ".md"
publisherFilePath(slug) == "lib/publishers/" \o slug \o ".md"
designerFilePath(slug) == "lib/designers/" \o slug \o ".md"

\* the gameRow object literal
gameRowOf(slug, filePath, fm, sections) ==
  [slug |-> Str(slug),
   status |-> fm.status,
   platform |-> fm.platform,
   engine |-> fm.engine,
   release |-> fm.release,
   director |-> orNull(fm.director),
   gameGenre |-> Arr(fm.gameGenre),
   gameModes |-> Arr(fm.gameModes),
   gameGenreTags |-> Arr(fm.gameGenreTags),
   playerPerspective |-> Arr(fm.playerPerspective),
   gameplayText |-> orNull(sections.gameplay),
   synopsisText |-> orNull(sections.synopsis),
   reviewText |-> orNull(sections.review),
   notesText |-> orNull(sections.notes),
   sourceFile |-> Str(filePath),
   lastSyncedAt |-> DateV(now)]

\* the studioRow object literal; fm is null when validation failed
studioRowOf(slug, filePath, result, sections) ==
  [slug |-> Str(slug),
   director |-> IF result.success THEN orNull(result.data.director) ELSE NullV,
   overviewText |-> orNull(sections.overview),
   sourceFile |-> Str(filePath),
   lastSyncedAt |-> DateV(now)]

\* the pubRow and designerRow object literals
overviewRowOf(slug, filePath, sections) ==
  [slug |-> Str(slug),
   overviewText |-> orNull(sections.overview),
   sourceFile |-> Str(filePath),
   lastSyncedAt |-> DateV(now)]

\* a variant of syncStubGame that rewrites the provenance of a row it finds
syncStubGameRewriting(st, slug, filePath) ==
  LET written ==
        IF slug \notin DOMAIN st.db.games
        THEN [st EXCEPT !.db.games =
                          insertEntity(@, slug, GameRowKeys,
                                       [slug |-> Str(slug), sourceFile |-> Str(filePath),
                                        lastSyncedAt |-> DateV(now)]).t,
                        !.report.created = @ + 1]
        ELSE [st EXCEPT !.db.games =
                          updateEntity(@, slug, [sourceFile |-> Str(filePath),
                                                 lastSyncedAt |-> DateV(now)])]
  IN [written EXCEPT !.report.gamesProcessed = @ + 1]

\* syncStubGame
syncStubGame(st, slug, filePath) ==
  LET inserted ==
        IF slug \notin DOMAIN st.db.games
        THEN [st EXCEPT !.db.games =
                          insertEntity(@, slug, GameRowKeys,
                                       [slug |-> Str(slug), sourceFile |-> Str(filePath),
                                        lastSyncedAt |-> DateV(now)]).t,
                        !.report.created = @ + 1]
        ELSE st
  IN [inserted EXCEPT !.report.gamesProcessed = @ + 1]

\* the body of the game loop for one file, with its catch
syncGameFile(st, filePath) ==
  LET slug == slugFromPath(filePath)
      parsed == corpus.games[slug]
      caught(s, err) ==
        [s EXCEPT !.report.errors = Append(@, "Error syncing game " \o filePath \o ": " \o err)]
  IN IF parsed.kind # "md" THEN caught(st, ParseError)
     ELSE LET result == gameFrontmatterSchema(parsed.frontmatter)
          IN IF ~result.success THEN syncStubGame(st, slug, filePath)
             ELSE
  LET fm == result.data
      tracked ==
        [st EXCEPT !.referenced.studios = @ \cup Range(fm.developer),
                   !.referenced.publishers = @ \cup Range(fm.publisher),
                   !.referenced.designers =
                       IF Truthy(fm.director) THEN @ \cup {fm.director.val} ELSE @]
      gameRow == gameRowOf(slug, filePath, fm, parsed.sections)
      upserted == upsert(tracked, "games", slug, "game", gameRow, GameRowKeys)
      devs == insertPairs(deleteWhere(upserted.db.gameDevelopers, 1, slug),
                          [i \in 1..Len(fm.developer) |-> <<slug, fm.developer[i]>>])
      afterDevs == [upserted EXCEPT !.db.gameDevelopers = devs.t]
      pubs == insertPairs(deleteWhere(afterDevs.db.gamePublishers, 1, slug),
                          [i \in 1..Len(fm.publisher) |-> <<slug, fm.publisher[i]>>])
      afterPubs == [afterDevs EXCEPT !.db.gamePublishers = pubs.t]
  IN IF devs.raised THEN caught(afterDevs, ConstraintError)
     ELSE IF pubs.raised THEN caught(afterPubs, ConstraintError)
     ELSE [afterPubs EXCEPT !.report.gamesProcessed = @ + 1]

\* the body of the studio loop for one file, with its catch
syncStudioFile(st, filePath) ==
  LET slug == slugFromPath(filePath)
      parsed == corpus.studios[slug]
      caught(s, err) ==
        [s EXCEPT !.report.errors = Append(@, "Error syncing studio " \o filePath \o ": " \o err)]
  IN IF parsed.kind # "md" THEN caught(st, ParseError)
     ELSE
  LET result == studioFrontmatterSchema(parsed.frontmatter)
      hasFm == result.success
      tracked ==
        IF hasFm /\ Truthy(result.data.director)
        THEN [st EXCEPT !.referenced.designers = @ \cup {result.data.director.val}]
        ELSE st
      studioRow == studioRowOf(slug, filePath, result, parsed.sections)
      upserted == upsert(tracked, "studios", slug, "studio", studioRow, StudioRowKeys)
      games == IF hasFm THEN result.data.games ELSE <<>>
      studios == IF hasFm THEN result.data.studios ELSE <<>>
      reverse == insertMissingPairs(upserted.db.gameDevelopers,
                                    [i \in 1..Len(games) |-> <<games[i], slug>>])
      afterGames == [upserted EXCEPT !.db.gameDevelopers = reverse.t]
      related ==
        IF Len(studios) > 0
        THEN insertPairs(deleteWhere(afterGames.db.relatedStudios, 1, slug),
                         [i \in 1..Len(studios) |-> <<slug, studios[i]>>])
        ELSE [raised |-> FALSE, t |-> afterGames.db.relatedStudios, done |-> 0]
      afterStudios ==
        [afterGames EXCEPT !.db.relatedStudios = related.t,
                           !.referenced.studios =
                               @ \cup {studios[i] : i \in 1..related.done}]
  IN IF reverse.raised THEN caught(afterGames, ConstraintError)
     ELSE IF related.raised THEN caught(afterStudios, ConstraintError)
     ELSE [afterStudios EXCEPT !.report.studiosProcessed = @ + 1]

\* the body of the publisher loop for one file, with its catch
syncPublisherFile(st, filePath) ==
  LET slug == slugFromPath(filePath)
      parsed == corpus.publishers[slug]
      caught(s, err) ==
        [s EXCEPT !.report.errors = Append(@, "Error syncing publisher " \o filePath \o ": " \o err)]
  IN IF parsed.kind # "md" THEN caught(st, ParseError)
     ELSE
  LET result == publisherFrontmatterSchema(parsed.frontmatter)
      hasFm == result.success
      pubRow == overviewRowOf(slug, filePath, parsed.sections)
      upserted == upsert(st, "publishers", slug, "publisher", pubRow, PublisherRowKeys)
      games == IF hasFm THEN result.data.games ELSE <<>>
      studios == IF hasFm THEN result.data.studios ELSE <<>>
      reverse == insertMissingPairs(upserted.db.gamePublishers,
                                    [i \in 1..Len(games) |-> <<games[i], slug>>])
      afterGames == [upserted EXCEPT !.db.gamePublishers = reverse.t]
      owned ==
        IF Len(studios) > 0
        THEN insertPairs(deleteWhere(afterGames.db.publisherStudios, 1, slug),
                         [i \in 1..Len(studios) |-> <<slug, studios[i]>>])
        ELSE [raised |-> FALSE, t |-> afterGames.db.publisherStudios, done |-> 0]
      afterStudios ==
        [afterGames EXCEPT !.db.publisherStudios = owned.t,
                           !.referenced.studios =
                               @ \cup {studios[i] : i \in 1..owned.done}]
  IN IF reverse.raised THEN caught(afterGames, ConstraintError)
     ELSE IF owned.raised THEN caught(afterStudios, ConstraintError)
     ELSE [afterStudios EXCEPT !.report.publishersProcessed = @ + 1]

\* the body of the designer loop for one file, with its catch
syncDesignerFile(st, filePath) ==
  LET slug == slugFromPath(filePath)
      parsed == corpus.designers[slug]
  IN IF parsed.kind # "md"
     THEN [st EXCEPT !.report.errors =
                        Append(@, "Error syncing designer " \o filePath \o ": " \o ParseError)]
     ELSE
  LET designerRow == overviewRowOf(slug, filePath, parsed.sections)
      upserted == upsert(st, "designers", slug, "designer", designerRow, DesignerRowKeys)
  IN [upserted EXCEPT !.report.designersProcessed = @ + 1]

(***************************************************************************)
(* csv-parser.ts                                                           *)
(***************************************************************************)
CsvColumns == {"name", "status", "platform", "notes"}

\* line.replace(/,\s*$/, "")
stripTrailingComma(line) ==
  LET t == trimEnd(line)
  IN IF endsWith(t, ",") THEN SubSeq(t, 1, Len(t) - 1) ELSE line

\* line.split(",").map((v) => v.trim())
splitCsvLine(line) ==
  LET cells == split(line, ",") IN [j \in 1..Len(cells) |-> trim(cells[j])]

\* lines[0].replace(/,\s*$/, "").split(",").map((h) => h.trim().toLowerCase())
csvHeader(line) ==
  LET cells == split(stripTrailingComma(line), ",")
  IN [j \in 1..Len(cells) |-> toLowerCase(trim(cells[j]))]

\* values[j] ?? ""
cellOrEmpty(values, j) == IF j <= Len(values) THEN values[j] ELSE ""

\* record[header[j]] = (values[j] ?? "").trim(), for j over the header
csvRecord(header, values) ==
  [k \in CsvColumns |->
     IF \E j \in 1..Len(header) : header[j] = k
     THEN LET last == CHOOSE j \in 1..Len(header) :
                        /\ header[j] = k
                        /\ \A i \in 1..Len(header) : header[i] = k => i <= j
          IN Str(trim(cellOrEmpty(values, last)))
     ELSE Undef]

\* a variant of the name test that lets every record through
nameNeverBlank(record) == FALSE

\* !record.name || record.name === ""
nameIsBlank(record) == ~Truthy(record["name"])

\* one iteration of the loop over the data lines: the entries it pushes
csvLineEntries(header, rawLine) ==
  LET values == splitCsvLine(stripTrailingComma(rawLine))
      record == csvRecord(header, values)
  IN IF nameIsBlank(record) THEN <<>>
     ELSE LET parsed == csvRowSchema(record)
          IN IF ~parsed.success THEN <<>>
             ELSE <<[slug |-> toSlug(parsed.data.name), row |-> parsed.data]>>

RECURSIVE csvEntries(_, _)
csvEntries(header, lines) ==
  IF Len(lines) = 0 THEN <<>>
  ELSE csvLineEntries(header, Head(lines)) \o csvEntries(header, Tail(lines))

\* raw.split("\n").filter((line) => line.trim() !== "")
csvLines(raw) ==
  LET all == split(raw, "\n") IN SelectSeq(all, LAMBDA line : trim(line) # "")

\* parseCsvFile, given the text fs.readFileSync returned
parseCsvFile(raw) ==
  LET lines == csvLines(raw)
  IN IF Len(lines) = 0 THEN <<>>
     ELSE csvEntries(csvHeader(lines[1]), Tail(lines))

(***************************************************************************)
(* The documents and catalog texts the corpus can hold.                    *)
(***************************************************************************)
GameFm(status, developer, publisher, director) ==
  [EmptyFrontmatter EXCEPT !["class"] = Str("game"),
                           !["status"] = Str(status),
                           !["platform"] = Str("PC"),
                           !["game-genre"] = Arr(<<"RPG">>),
                           !["developer"] = developer,
                           !["publisher"] = publisher,
                           !["director"] = director]

StudioFm(director, games, studios) ==
  [EmptyFrontmatter EXCEPT !["class"] = Str("studio"),
                           !["director"] = director,
                           !["games"] = games,
                           !["studios"] = studios]

PublisherFm(games, studios) ==
  [EmptyFrontmatter EXCEPT !["class"] = Str("publisher"),
                           !["games"] = games,
                           !["studios"] = studios]

\* a file whose front matter lacks the class discriminator
Unclassified == Md(EmptyFrontmatter, NoSections)

GameLinks ==
  { <<Undef, Undef, Undef>>,
    <<Arr(<<"[[S1]]">>), Undef, Undef>>,
    <<Arr(<<"[[S1]]", "[[S1]]">>), Undef, Undef>>,
    <<Arr(<<"[[S1]]">>), Str("[[P1]]"), Undef>>,
    <<Arr(<<"[[S1]]">>), Str("[[P1]]"), Str("[[D1]]")>> }

GameDocs(slug) ==
  IF slug = "G1"
  THEN {BadFile, Unclassified}
       \cup { Md(GameFm("Finished", l[1], l[2], l[3]), NoSections) : l \in GameLinks }
       \cup { Md(GameFm(" started ", Undef, Undef, Undef), NoSections) }
  ELSE { Md([GameFm("Started", Undef, Undef, Undef) EXCEPT !["platform"] = Str("Xbox 360"),
                                                          !["game-genre"] = Undef],
            NoSections) }

StudioDocs(slug) ==
  IF slug = "S1"
  THEN {BadFile, Unclassified}
       \cup { Md(StudioFm(Undef, Undef, Undef), NoSections),
              Md(StudioFm(Str("[[D1]]"), Undef, Undef), NoSections),
              Md(StudioFm(Undef, Str("[[G1]]"), Undef), NoSections),
              Md(StudioFm(Undef, Undef, Arr(<<"[[S2]]">>)), NoSections) }
  ELSE { Md(StudioFm(Undef, Undef, Undef), NoSections) }

PublisherDocs(slug) ==
  { Md(PublisherFm(Undef, Undef), NoSections),
    Md(PublisherFm(Arr(<<"[[G1]]">>), Undef), NoSections),
    Md(PublisherFm(Undef, Arr(<<"[[S1]]">>)), NoSections) }

DesignerDocs(slug) ==
  { Md(EmptyFrontmatter, NoSections),
    Md(EmptyFrontmatter, [NoSections EXCEPT !["overview"] = Str("Bio")]) }

Docs(kind, slug) ==
  CASE kind = "games" -> GameDocs(slug)
    [] kind = "studios" -> StudioDocs(slug)
    [] kind = "publishers" -> PublisherDocs(slug)
    [] kind = "designers" -> DesignerDocs(slug)

Slugs(kind) ==
  CASE kind = "games" -> GameSlugs
    [] kind = "studios" -> StudioSlugs
    [] kind = "publishers" -> PublisherSlugs
    [] kind = "designers" -> DesignerSlugs

Kinds == {"games", "studios", "publishers", "designers"}

CsvText(raw) == [kind |-> "text", raw |-> raw]
CsvHeaderLine == "name,status,platform,notes,\n"
CsvTexts ==
  { CsvText(CsvHeaderLine),
    CsvText(CsvHeaderLine \o "G1,finished,PC,\n"),
    CsvText(CsvHeaderLine \o "G1,bought\n"),
    CsvText(CsvHeaderLine \o " G2 ,Started,Xbok 360,\n") }

(***************************************************************************)
(* syncAll as a state machine.                                             *)
(***************************************************************************)
Init ==
  /\ corpus = [games |-> [s \in GameSlugs |-> NoFile],
               studios |-> [s \in StudioSlugs |-> NoFile],
               publishers |-> [s \in PublisherSlugs |-> NoFile],
               designers |-> [s \in DesignerSlugs |-> NoFile],
               csv |-> CsvText(CsvHeaderLine)]
  /\ db = EmptyDb
  /\ snapshot = EmptyDb
  /\ pc = "idle"
  /\ todo = <<>>
  /\ csvGames = <<>>
  /\ report = EmptyReport
  /\ referenced = EmptyReferenced
  /\ now = 0
  /\ edits = 0
  /\ conn = 0
  /\ hist = <<>>

\* the author writes, replaces or removes one document between two runs
EditFile(kind, slug, doc) ==
  /\ pc = "idle"
  /\ edits < MaxEdits
  /\ doc # corpus[kind][slug]
  /\ corpus' = [corpus EXCEPT ![kind][slug] = doc]
  /\ edits' = edits + 1
  /\ UNCHANGED <<db, snapshot, pc, todo, csvGames, report, referenced, now, conn, hist>>

\* the author replaces or removes the catalog file between two runs
EditCsv(file) ==
  /\ pc = "idle"
  /\ edits < MaxEdits
  /\ file # corpus.csv
  /\ corpus' = [corpus EXCEPT !.csv = file]
  /\ edits' = edits + 1
  /\ UNCHANGED <<db, snapshot, pc, todo, csvGames, report, referenced, now, conn, hist>>

\* globSync("lib/<kind>/*.md")
SlugOrder == <<"D1", "G1", "G2", "P1", "S1", "S2">>
globSync(kind, path(_)) ==
  LET present == SelectSeq(SlugOrder,
                           LAMBDA s : s \in Slugs(kind) /\ corpus[kind][s] # NoFile)
  IN [i \in 1..Len(present) |-> path(present[i])]

\* a variant in which the transaction goes to the stub loops after any iteration
nextPhaseAbandoning(files) == "stubs"

\* the loop that runs next, given the files still to process
nextPhase(files) ==
  CASE Len(files.games) > 0 -> "games"
    [] Len(files.games) = 0 /\ ~files.csvDone -> "csv"
    [] Len(files.games) = 0 /\ files.csvDone /\ Len(files.studios) > 0 -> "studios"
    [] Len(files.games) = 0 /\ files.csvDone /\ Len(files.studios) = 0
       /\ Len(files.publishers) > 0 -> "publishers"
    [] Len(files.games) = 0 /\ files.csvDone /\ Len(files.studios) = 0
       /\ Len(files.publishers) = 0 /\ Len(files.designers) > 0 -> "designers"
    [] OTHER -> "stubs"

\* a variant of the catalog read whose handler records nothing
readCatalogSilently(file) ==
  IF file.kind = "text"
  THEN [entries |-> parseCsvFile(file.raw), errors |-> <<>>]
  ELSE [entries |-> <<>>, errors |-> <<>>]

\* try { csvGames = parseCsvFile("lib/games.csv") } catch (err) { errors.push(...) }
readCatalog(file) ==
  IF file.kind = "text"
  THEN [entries |-> parseCsvFile(file.raw), errors |-> <<>>]
  ELSE [entries |-> <<>>, errors |-> <<"CSV parse error: " \o ParseError>>]

\* syncAll up to the call of transact(): open, discovery, catalog parse, BEGIN
Begin ==
  /\ pc = "idle"
  /\ Len(hist) < MaxRuns
  /\ conn' = conn + 1
  /\ now' = now + 1
  /\ snapshot' = db
  /\ referenced' = EmptyReferenced
  /\ csvGames' = readCatalog(corpus.csv).entries
  /\ report' = [EmptyReport EXCEPT !.errors = readCatalog(corpus.csv).errors]
  /\ todo' = [games |-> globSync("games", gameFilePath),
              studios |-> globSync("studios", studioFilePath),
              publishers |-> globSync("publishers", publisherFilePath),
              designers |-> globSync("designers", designerFilePath),
              csvDone |-> FALSE]
  /\ pc' = nextPhase(todo')
  /\ UNCHANGED <<corpus, db, edits, hist>>

State == [db |-> db, report |-> report, referenced |-> referenced]

\* one iteration of one of the four document loops
SyncFile(kind, syncFile(_, _)) ==
  /\ pc = kind
  /\ LET st == syncFile(State, Head(todo[kind]))
     IN /\ db' = st.db
        /\ report' = st.report
        /\ referenced' = st.referenced
  /\ todo' = [todo EXCEPT ![kind] = Tail(@)]
  /\ pc' = nextPhase(todo')
  /\ UNCHANGED <<corpus, snapshot, csvGames, now, edits, conn, hist>>

SyncGame == SyncFile("games", syncGameFile)
SyncStudio == SyncFile("studios", syncStudioFile)
SyncPublisher == SyncFile("publishers", syncPublisherFile)
SyncDesigner == SyncFile("designers", syncDesignerFile)

\* `if (existing) continue`
csvSkips(games, slug) == slug \in DOMAIN games

\* the gameRow object literal of the catalog loop
csvGameRowOf(slug, row) ==
  [slug |-> Str(slug), status |-> row.status, platform |-> row.platform,
   engine |-> NullV, release |-> NullV, director |-> NullV,
   gameGenre |-> NullV, gameModes |-> NullV, gameGenreTags |-> NullV,
   playerPerspective |-> NullV, gameplayText |-> NullV,
   synopsisText |-> NullV, reviewText |-> NullV, notesText |-> NullV,
   sourceFile |-> Str("lib/games.csv"), lastSyncedAt |-> DateV(now)]

\* variant of the catalog loop that writes the catalog row over an existing row
RECURSIVE syncCsvGamesOverwriting(_, _)
syncCsvGamesOverwriting(st, entries) ==
  IF Len(entries) = 0 THEN [st |-> st, raised |-> FALSE]
  ELSE LET slug == Head(entries).slug
           gameRow == csvGameRowOf(slug, Head(entries).row)
       IN IF csvSkips(st.db.games, slug)
          THEN syncCsvGamesOverwriting(
                 [st EXCEPT !.db.games = updateEntity(@, slug, gameRow)], Tail(entries))
          ELSE syncCsvGamesOverwriting(
                 [st EXCEPT !.db.games = insertEntity(@, slug, GameRowKeys, gameRow).t,
                            !.report.created = @ + 1,
                            !.report.gamesProcessed = @ + 1],
                 Tail(entries))

\* the loop over csvGames; it is outside every try, so a raising insert ends it
RECURSIVE syncCsvGames(_, _)
syncCsvGames(st, entries) ==
  IF Len(entries) = 0 THEN [st |-> st, raised |-> FALSE]
  ELSE LET slug == Head(entries).slug
           gameRow == csvGameRowOf(slug, Head(entries).row)
           inserted == insertEntity(st.db.games, slug, GameRowKeys, gameRow)
       IN IF csvSkips(st.db.games, slug)
          THEN syncCsvGames(st, Tail(entries))
          ELSE IF inserted.raised
          THEN [st |-> st, raised |-> TRUE]
          ELSE syncCsvGames(
                 [st EXCEPT !.db.games = inserted.t,
                            !.report.created = @ + 1,
                            !.report.gamesProcessed = @ + 1],
                 Tail(entries))

SyncCsv ==
  /\ pc = "csv"
  /\ LET done == syncCsvGames(State, csvGames)
     IN /\ ~done.raised
        /\ db' = done.st.db
        /\ report' = done.st.report
  /\ todo' = [todo EXCEPT !.csvDone = TRUE]
  /\ pc' = nextPhase(todo')
  /\ UNCHANGED <<corpus, snapshot, csvGames, referenced, now, edits, conn, hist>>

\* the three loops over the referenced sets
stubRow(slug, keys) ==
  insertedRow(keys, [slug |-> Str(slug), sourceFile |-> Str("(referenced)"),
                     lastSyncedAt |-> DateV(now)])

\* a variant of the stub loops that inserts without looking for the row
withStubsOverwriting(table, slugs, keys) ==
  [s \in DOMAIN table \cup slugs |->
     IF s \in slugs THEN stubRow(s, keys) ELSE table[s]]

\* if (!exists) insert, for every slug of the set
withStubs(table, slugs, keys) ==
  [s \in DOMAIN table \cup slugs |->
     IF s \in DOMAIN table THEN table[s] ELSE stubRow(s, keys)]

MaterializeStubs ==
  /\ pc = "stubs"
  /\ db' = [db EXCEPT !.studios = withStubs(@, referenced.studios, StudioRowKeys),
                      !.publishers = withStubs(@, referenced.publishers, PublisherRowKeys),
                      !.designers = withStubs(@, referenced.designers, DesignerRowKeys)]
  /\ pc' = "commit"
  /\ UNCHANGED <<corpus, snapshot, todo, csvGames, report, referenced, now, edits,
                 conn, hist>>

RunRecord(outcome, after) ==
  [corpus |-> corpus, after |-> after, report |-> report, outcome |-> outcome,
   wrote |-> db # snapshot]

\* transact() returns: COMMIT, sqlite.close(), return report
Commit ==
  /\ pc = "commit"
  /\ conn' = conn - 1
  /\ hist' = Append(hist, RunRecord("returned", db))
  /\ pc' = "idle"
  /\ UNCHANGED <<corpus, db, snapshot, todo, csvGames, report, referenced, now, edits>>

\* An insert of the catalog loop or of the stub loops raises (the store cannot
\* take the write, or a constraint fails): nothing catches it inside the
\* transaction function, so sqlite.transaction rolls back and rethrows, and
\* syncAll is left through the exception, before sqlite.close().
insertPending ==
  \/ pc = "csv" /\ \E i \in 1..Len(csvGames) : csvGames[i].slug \notin DOMAIN db.games
  \/ pc = "stubs" /\ \/ referenced.studios \ DOMAIN db.studios # {}
                     \/ referenced.publishers \ DOMAIN db.publishers # {}
                     \/ referenced.designers \ DOMAIN db.designers # {}

\* a variant of the transaction that keeps its writes when it raises
keptOnRaise(current, begun) == current

\* sqlite.transaction: ROLLBACK to the store as it was at BEGIN
rolledBack(current, begun) == begun

TransactionFails ==
  /\ \/ insertPending
     \/ pc = "csv" /\ syncCsvGames(State, csvGames).raised
  /\ db' = rolledBack(db, snapshot)
  /\ hist' = Append(hist, RunRecord("raised", db'))
  /\ pc' = "idle"
  /\ UNCHANGED <<corpus, snapshot, todo, csvGames, report, referenced, now, edits, conn>>

Next ==
  \/ \E kind \in Kinds : \E slug \in Slugs(kind) :
       \E doc \in Docs(kind, slug) \cup {NoFile} : EditFile(kind, slug, doc)
  \/ \E file \in CsvTexts \cup {NoFile} : EditCsv(file)
  \/ Begin
  \/ SyncGame
  \/ SyncCsv
  \/ SyncStudio
  \/ SyncPublisher
  \/ SyncDesigner
  \/ MaterializeStubs
  \/ Commit
  \/ TransactionFails

Spec == Init /\ [][Next]_vars

(***************************************************************************)
(* Vocabulary of the properties: the runs so far, and what a corpus        *)
(* declares.                                                               *)
(***************************************************************************)
Runs == 1..Len(hist)
Returned(i) == hist[i].outcome = "returned"
\* the store a run started from
Before(i) == IF i = 1 THEN EmptyDb ELSE hist[i - 1].after
\* run j follows run i and both returned a report
Consecutive(i, j) == j = i + 1 /\ j \in Runs /\ Returned(i) /\ Returned(j)

JunctionTables == {"gameDevelopers", "gamePublishers", "publisherStudios", "relatedStudios"}
EntityTables == {"games", "studios", "publishers", "designers"}

RowKeys(kind) ==
  CASE kind = "games" -> GameRowKeys
    [] kind = "studios" -> StudioRowKeys
    [] kind = "publishers" -> PublisherRowKeys
    [] kind = "designers" -> DesignerRowKeys

\* the columns change detection compares
ContentColumns(kind) == Range(RowKeys(kind)) \ {"slug", "sourceFile", "lastSyncedAt"}

EntityType(kind) ==
  CASE kind = "games" -> "game"
    [] kind = "studios" -> "studio"
    [] kind = "publishers" -> "publisher"
    [] kind = "designers" -> "designer"

FilePath(kind, slug) ==
  CASE kind = "games" -> gameFilePath(slug)
    [] kind = "studios" -> studioFilePath(slug)
    [] kind = "publishers" -> publisherFilePath(slug)
    [] kind = "designers" -> designerFilePath(slug)

\* the front matter of the document validates for its kind
Validates(kind, doc) ==
  /\ doc.kind = "md"
  /\ CASE kind = "games" -> gameFrontmatterSchema(doc.frontmatter).success
       [] kind = "studios" -> studioFrontmatterSchema(doc.frontmatter).success
       [] kind = "publishers" -> publisherFrontmatterSchema(doc.frontmatter).success
       [] kind = "designers" -> TRUE

\* the normalized row the engine computes for a document
HasRow(kind, doc) == doc.kind = "md" /\ (kind = "games" => Validates(kind, doc))
RowOf(kind, slug, doc) ==
  CASE kind = "games" ->
         gameRowOf(slug, gameFilePath(slug),
                   gameFrontmatterSchema(doc.frontmatter).data, doc.sections)
    [] kind = "studios" ->
         studioRowOf(slug, studioFilePath(slug),
                     studioFrontmatterSchema(doc.frontmatter), doc.sections)
    [] kind = "publishers" -> overviewRowOf(slug, publisherFilePath(slug), doc.sections)
    [] kind = "designers" -> overviewRowOf(slug, designerFilePath(slug), doc.sections)

\* the pairs of a junction table that one document declares in one of its lists
DeclaredBy(c, kind, slug, table) ==
  LET doc == c[kind][slug]
  IN IF kind = "designers" \/ ~Validates(kind, doc) THEN {}
     ELSE CASE kind = "games" /\ table = "gameDevelopers" ->
                 {<<slug, x>> : x \in Range(gameFrontmatterSchema(doc.frontmatter).data.developer)}
            [] kind = "games" /\ table = "gamePublishers" ->
                 {<<slug, x>> : x \in Range(gameFrontmatterSchema(doc.frontmatter).data.publisher)}
            [] kind = "studios" /\ table = "gameDevelopers" ->
                 {<<x, slug>> : x \in Range(studioFrontmatterSchema(doc.frontmatter).data.games)}
            [] kind = "studios" /\ table = "relatedStudios" ->
                 {<<slug, x>> : x \in Range(studioFrontmatterSchema(doc.frontmatter).data.studios)}
            [] kind = "publishers" /\ table = "gamePublishers" ->
                 {<<x, slug>> : x \in Range(publisherFrontmatterSchema(doc.frontmatter).data.games)}
            [] kind = "publishers" /\ table = "publisherStudios" ->
                 {<<slug, x>> : x \in Range(publisherFrontmatterSchema(doc.frontmatter).data.studios)}
            [] OTHER -> {}

Declared(c, table) ==
  UNION {UNION {DeclaredBy(c, kind, slug, table) : slug \in Slugs(kind)} : kind \in Kinds}

\* the catalog entries of a corpus
CatalogEntries(c) == IF c.csv.kind = "text" THEN parseCsvFile(c.csv.raw) ELSE <<>>

\* corpora c and d differ in the document kind/slug and in nothing else
DifferOnlyAt(c, d, kind, slug) ==
  /\ c.csv = d.csv
  /\ c[kind][slug] # d[kind][slug]
  /\ \A k \in Kinds : \A x \in Slugs(k) : (k # kind \/ x # slug) => c[k][x] = d[k][x]

(***************************************************************************)
(* C1  Idempotence of a run: when two consecutive runs both return and the *)
(* corpus is the same in both, the second report has created = 0,          *)
(* updated = 0 and no change record.                                       *)
(***************************************************************************)
IdempotentRerun ==
  \A i \in Runs : \A j \in Runs :
    (Consecutive(i, j) /\ hist[j].corpus = hist[i].corpus) =>
      /\ hist[j].report.created = 0
      /\ hist[j].report.updated = 0
      /\ hist[j].report.changes = <<>>

\* a rerun over an unchanged corpus whose first run updated a row
IdempotentRerunWitness ==
  \E i \in Runs : \E j \in Runs :
    /\ Consecutive(i, j) /\ hist[j].corpus = hist[i].corpus
    /\ hist[i].report.updated > 0
    /\ hist[j].report.unchanged > 0

(***************************************************************************)
(* C2  Referential completeness: after every run that commits, each slug   *)
(* in a junction row or in a director column has a row in its entity       *)
(* table, game slugs named only in a studio's or publisher's games list    *)
(* included.                                                               *)
(***************************************************************************)
DirectorsResolve(d, table) ==
  \A s \in DOMAIN d[table] :
    d[table][s].director # NullV => d[table][s].director.val \in DOMAIN d.designers

PairsResolve(d, table, left, right) ==
  \A p \in BagToSet(d[table]) : p[1] \in DOMAIN d[left] /\ p[2] \in DOMAIN d[right]

\* every reference except the game column of the two game junctions
ReferencedRowsExist(d) ==
  /\ DirectorsResolve(d, "games")
  /\ DirectorsResolve(d, "studios")
  /\ \A p \in BagToSet(d.gameDevelopers) : p[2] \in DOMAIN d.studios
  /\ \A p \in BagToSet(d.gamePublishers) : p[2] \in DOMAIN d.publishers
  /\ PairsResolve(d, "publisherStudios", "publishers", "studios")
  /\ PairsResolve(d, "relatedStudios", "studios", "studios")

ReferentialCompleteness ==
  \A i \in Runs :
    Returned(i) =>
      /\ ReferencedRowsExist(hist[i].after)
      /\ PairsResolve(hist[i].after, "gameDevelopers", "games", "studios")
      /\ PairsResolve(hist[i].after, "gamePublishers", "games", "publishers")

(***************************************************************************)
(* C3  Junction replacement: a pair that a valid document declared at one  *)
(* run and no longer declares at the next, and that no document declares   *)
(* any more, is absent from the junction table after that next run and     *)
(* after every later run over the same corpus.                             *)
(***************************************************************************)
JunctionReplacement ==
  \A i \in Runs : \A j \in Runs :
    Consecutive(i, j) =>
      \A kind \in Kinds : \A slug \in Slugs(kind) : \A table \in JunctionTables :
        (Validates(kind, hist[i].corpus[kind][slug])
           /\ Validates(kind, hist[j].corpus[kind][slug])) =>
          \A p \in DeclaredBy(hist[i].corpus, kind, slug, table)
                     \ Declared(hist[j].corpus, table) :
            \A l \in Runs :
              (l >= j /\ Returned(l) /\ \A k \in j..l : hist[k].corpus = hist[j].corpus)
                => ~BagIn(p, hist[l].after[table])

(***************************************************************************)
(* C4  Junction pair uniqueness: no junction table ever holds a pair       *)
(* twice, and a pair declared both by the game document and by the studio  *)
(* (or publisher) document has exactly one row after a run that returns.   *)
(***************************************************************************)
DeclaredFromBothSides(c, table, kind) ==
  UNION {DeclaredBy(c, "games", g, table) : g \in GameSlugs}
    \cap UNION {DeclaredBy(c, kind, s, table) : s \in Slugs(kind)}

JunctionPairsUnique ==
  /\ \A table \in JunctionTables : \A p \in BagToSet(db[table]) : CopiesIn(p, db[table]) = 1
  /\ \A i \in Runs :
       Returned(i) =>
         /\ \A p \in DeclaredFromBothSides(hist[i].corpus, "gameDevelopers", "studios") :
              CopiesIn(p, hist[i].after.gameDevelopers) = 1
         /\ \A p \in DeclaredFromBothSides(hist[i].corpus, "gamePublishers", "publishers") :
              CopiesIn(p, hist[i].after.gamePublishers) = 1

\* a run returned over a corpus in which a game names a studio and the studio names the game
JunctionPairsUniqueWitness ==
  \E i \in Runs :
    /\ Returned(i)
    /\ \E p \in DeclaredFromBothSides(hist[i].corpus, "gameDevelopers", "studios") :
         CopiesIn(p, hist[i].after.gameDevelopers) = 1

(***************************************************************************)
(* C5  Change detection precision: when between two consecutive returned   *)
(* runs one document changes so that exactly one compared field of its     *)
(* normalized row differs, the second run reports exactly one change       *)
(* record (entity, kind, field, old and new serialized value), updated is  *)
(* 1, and every other content column of the row is as it was.              *)
(***************************************************************************)
ChangedFields(kind, slug, old, new) ==
  {f \in ContentColumns(kind) : RowOf(kind, slug, old)[f] # RowOf(kind, slug, new)[f]}

OneFieldEdit(i, j, kind, slug, f) ==
  /\ Consecutive(i, j)
  /\ DifferOnlyAt(hist[i].corpus, hist[j].corpus, kind, slug)
  /\ HasRow(kind, hist[i].corpus[kind][slug])
  /\ HasRow(kind, hist[j].corpus[kind][slug])
  /\ ChangedFields(kind, slug, hist[i].corpus[kind][slug], hist[j].corpus[kind][slug]) = {f}

ChangeDetectionPrecision ==
  \A i \in Runs : \A j \in Runs : \A kind \in Kinds : \A slug \in Slugs(kind) :
    \A f \in ContentColumns(kind) :
      OneFieldEdit(i, j, kind, slug, f) =>
        /\ hist[j].report.changes =
             <<[entity |-> slug, entityType |-> EntityType(kind), field |-> f,
                oldValue |-> serialize(RowOf(kind, slug, hist[i].corpus[kind][slug])[f]),
                newValue |-> serialize(RowOf(kind, slug, hist[j].corpus[kind][slug])[f])]>>
        /\ hist[j].report.updated = 1
        /\ \A col \in ContentColumns(kind) \ {f} :
             hist[j].after[kind][slug][col] = hist[i].after[kind][slug][col]

\* the status of a game document was edited and its platform was kept
ChangeDetectionPrecisionWitness ==
  \E i \in Runs : \E j \in Runs :
    /\ OneFieldEdit(i, j, "games", "G1", "status")
    /\ hist[j].after.games["G1"].status # hist[i].after.games["G1"].status
    /\ hist[j].after.games["G1"].platform = Str("PC")

(***************************************************************************)
(* C6  Catalog precedence: the catalog loop leaves every existing game row *)
(* as it is and only adds rows for slugs that have none; and after every   *)
(* run that returns, a game with a valid document and a catalog entry of   *)
(* the same slug holds the document's fields.                              *)
(***************************************************************************)
HoldsDocument(d, c, g) ==
  \A col \in Range(GameRowKeys) \ {"lastSyncedAt"} :
    d.games[g][col] = toDriverCell(col, RowOf("games", g, c.games[g])[col])

InCatalog(c, g) == \E n \in DOMAIN CatalogEntries(c) : CatalogEntries(c)[n].slug = g

DocumentWins ==
  \A i \in Runs :
    Returned(i) =>
      \A g \in GameSlugs :
        (Validates("games", hist[i].corpus.games[g]) /\ InCatalog(hist[i].corpus, g)) =>
          /\ g \in DOMAIN hist[i].after.games
          /\ HoldsDocument(hist[i].after, hist[i].corpus, g)

CatalogKeepsRows ==
  (pc = "csv" /\ pc' # "idle") =>
    \A g \in DOMAIN db.games : g \in DOMAIN db'.games /\ db'.games[g] = db.games[g]

CatalogPrecedence == []DocumentWins /\ [][CatalogKeepsRows]_vars

\* a run returned with a document and a catalog entry for G1 whose fields disagree
CatalogPrecedenceWitness ==
  \E i \in Runs :
    /\ Returned(i)
    /\ Validates("games", hist[i].corpus.games["G1"])
    /\ \E n \in DOMAIN CatalogEntries(hist[i].corpus) :
         /\ CatalogEntries(hist[i].corpus)[n].slug = "G1"
         /\ CatalogEntries(hist[i].corpus)[n].row.status # hist[i].after.games["G1"].status
    /\ hist[i].after.games["G1"].sourceFile = Str(gameFilePath("G1"))

(***************************************************************************)
(* C7  Validation failure fallback: processing a game document whose       *)
(* header cannot be parsed (the parse raises, or its fields fail game      *)
(* validation) leaves a game row for its slug in the store and increments  *)
(* gamesProcessed.                                                         *)
(***************************************************************************)
HeaderUnparsable(doc) == doc.kind = "throw" \/ (doc.kind = "md" /\ ~Validates("games", doc))

GameFallback ==
  [][(pc = "games" /\ HeaderUnparsable(corpus.games[slugFromPath(Head(todo.games))])) =>
       /\ slugFromPath(Head(todo.games)) \in DOMAIN db'.games
       /\ report'.gamesProcessed = report.gamesProcessed + 1]_vars

(***************************************************************************)
(* The catalog parser on its own: a sheet is a header and up to            *)
(* MaxDataLines data lines of up to MaxCells cells, each line with or      *)
(* without a trailing comma; the file holds its text and parseCsvFile      *)
(* reads it.                                                               *)
(***************************************************************************)
MaxDataLines == 2
MaxCells == 2

CsvCells == {"", "G1", " My Game "}
CsvHeaders ==
  { [cells |-> <<"name", "status", "platform", "notes">>, comma |-> TRUE],
    [cells |-> <<"Status", " Name">>, comma |-> FALSE] }
CsvRows ==
  {[cells |-> c, comma |-> b] :
     c \in UNION {[1..n -> CsvCells] : n \in 1..MaxCells}, b \in BOOLEAN}
CsvSheets ==
  {[header |-> h, rows |-> r] :
     h \in CsvHeaders, r \in UNION {[1..n -> CsvRows] : n \in 0..MaxDataLines}}

RECURSIVE JoinCells(_, _)
JoinCells(cells, i) ==
  IF i > Len(cells) THEN ""
  ELSE cells[i] \o (IF i < Len(cells) THEN "," ELSE "") \o JoinCells(cells, i + 1)

RenderLine(line) == JoinCells(line.cells, 1) \o (IF line.comma THEN "," ELSE "") \o "\n"

RECURSIVE RenderLines(_, _)
RenderLines(rows, k) ==
  IF k > Len(rows) THEN "" ELSE RenderLine(rows[k]) \o RenderLines(rows, k + 1)

RenderSheet(sheet) == RenderLine(sheet.header) \o RenderLines(sheet.rows, 1)

InitCsv ==
  /\ \E sheet \in CsvSheets :
       corpus = [csv |-> CsvText(RenderSheet(sheet)), sheet |-> sheet]
  /\ db = EmptyDb
  /\ snapshot = EmptyDb
  /\ pc = "idle"
  /\ todo = <<>>
  /\ csvGames = <<>>
  /\ report = EmptyReport
  /\ referenced = EmptyReferenced
  /\ now = 0
  /\ edits = 0
  /\ conn = 0
  /\ hist = <<>>

\* parseCsvFile(csvPath) on the catalog file
ParseCatalog ==
  /\ pc = "idle"
  /\ csvGames' = parseCsvFile(corpus.csv.raw)
  /\ pc' = "parsed"
  /\ UNCHANGED <<corpus, db, snapshot, todo, report, referenced, now, edits, conn, hist>>

NextCsv == ParseCatalog

SpecCsv == InitCsv /\ [][NextCsv]_vars

\* the column the header names "name" (0 when it names none)
NameColumn(sheet) ==
  LET named == {c \in DOMAIN sheet.header.cells :
                  toLowerCase(trim(sheet.header.cells[c])) = "name"}
  IN IF named = {} THEN 0 ELSE CHOOSE c \in named : TRUE

\* the name a data line gives: its cell under the name column, trimmed, and
\* empty when the line does not reach that column
NameOf(sheet, k) ==
  LET c == NameColumn(sheet)
  IN IF c = 0 \/ c > Len(sheet.rows[k].cells) THEN "" ELSE trim(sheet.rows[k].cells[c])

ShortLine(sheet, k) == Len(sheet.rows[k].cells) < Len(sheet.header.cells)

EntriesWithSlug(entries, slug) == {n \in DOMAIN entries : entries[n].slug = slug}

(***************************************************************************)
(* C8 as stated  Malformed-row skip: the parse result has no entry for a   *)
(* data line with fewer columns than the header and none for a line whose  *)
(* name is blank, so for every slug it has at most as many entries as      *)
(* there are full, named lines of that slug.                               *)
(***************************************************************************)
ShortLinesSkipped ==
  pc = "parsed" =>
    \A n \in DOMAIN csvGames :
      Cardinality(EntriesWithSlug(csvGames, csvGames[n].slug)) <=
        Cardinality({k \in DOMAIN corpus.sheet.rows :
                       /\ ~ShortLine(corpus.sheet, k)
                       /\ NameOf(corpus.sheet, k) # ""
                       /\ toSlug(NameOf(corpus.sheet, k)) = csvGames[n].slug})

(***************************************************************************)
(* C8  Malformed-row skip: parseCsvFile returns for every sheet, reading   *)
(* the cells a short line lacks as empty; its result has, in line order,   *)
(* one entry for each data line whose name is not blank (keyed by the slug *)
(* of that name), and none for a line whose name is blank or missing.      *)
(***************************************************************************)
NamedLines(sheet) ==
  SelectSeq([k \in DOMAIN sheet.rows |-> NameOf(sheet, k)], LAMBDA name : name # "")

BlankNamesSkipped ==
  pc = "parsed" =>
    [n \in DOMAIN csvGames |-> [slug |-> csvGames[n].slug, name |-> csvGames[n].row.name]]
      = [n \in DOMAIN NamedLines(corpus.sheet) |->
           [slug |-> toSlug(NamedLines(corpus.sheet)[n]),
            name |-> NamedLines(corpus.sheet)[n]]]

\* a line with fewer columns than the header was read and gave an entry,
\* next to a line with a blank name that gave none
BlankNamesSkippedWitness ==
  /\ pc = "parsed"
  /\ Len(corpus.sheet.rows) = 2
  /\ ShortLine(corpus.sheet, 1) /\ NameOf(corpus.sheet, 1) = "My Game"
  /\ NameOf(corpus.sheet, 2) = ""
  /\ Len(csvGames) = 1
  /\ csvGames[1].slug = toSlug("My Game")

(***************************************************************************)
(* C9  Stub materialization: the stub loops give every referenced slug     *)
(* that has no row a row with provenance "(referenced)" and null content,  *)
(* and change no existing row; and after a run that returns, a game        *)
(* naming a studio that never had a document has exactly one game-studio   *)
(* row for it and the studio has a stub row.                               *)
(***************************************************************************)
IsStub(row, slug, keys) ==
  /\ row.slug = Str(slug)
  /\ row.sourceFile = Str("(referenced)")
  /\ \A col \in Range(keys) \ {"slug", "sourceFile", "lastSyncedAt"} : row[col] = NullV

StubLoopsFill ==
  pc = "stubs" /\ pc' = "commit" =>
    \A kind \in {"studios", "publishers", "designers"} :
      /\ \A s \in referenced[kind] \ DOMAIN db[kind] :
           s \in DOMAIN db'[kind] /\ IsStub(db'[kind][s], s, RowKeys(kind))
      /\ \A s \in DOMAIN db[kind] : s \in DOMAIN db'[kind] /\ db'[kind][s] = db[kind][s]
      /\ DOMAIN db'[kind] = DOMAIN db[kind] \cup referenced[kind]

NeverHadDocument(i, kind, slug) == \A k \in 1..i : hist[k].corpus[kind][slug] = NoFile

DanglingDeveloperGetsStub ==
  \A i \in Runs :
    Returned(i) =>
      \A g \in GameSlugs :
        \A p \in DeclaredBy(hist[i].corpus, "games", g, "gameDevelopers") :
          NeverHadDocument(i, "studios", p[2]) =>
            /\ CopiesIn(p, hist[i].after.gameDevelopers) = 1
            /\ p[2] \in DOMAIN hist[i].after.studios
            /\ IsStub(hist[i].after.studios[p[2]], p[2], StudioRowKeys)

StubMaterialization == []DanglingDeveloperGetsStub /\ [][StubLoopsFill]_vars

\* the stub loops have just created the studio a game names as developer
StubMaterializationWitness ==
  /\ pc = "commit"
  /\ "S1" \in referenced.studios
  /\ "S1" \notin DOMAIN snapshot.studios
  /\ corpus.studios["S1"] = NoFile
  /\ IsStub(db.studios["S1"], "S1", StudioRowKeys)
  /\ CopiesIn(<<"G1", "S1">>, db.gameDevelopers) = 1

(***************************************************************************)
(* C10  Atomic rollback: a run whose transaction raises outside the        *)
(* per-document handlers leaves the store as it was before the run, and    *)
(* ends by the exception instead of a returned report.                     *)
(***************************************************************************)
AtomicRollback ==
  \A i \in Runs :
    hist[i].outcome = "raised" => hist[i].after = Before(i)

\* a run raised after its transaction had written to the store
AtomicRollbackWitness ==
  \E i \in Runs :
    /\ hist[i].outcome = "raised"
    /\ hist[i].wrote
    /\ hist[i].after = Before(i)

(***************************************************************************)
(* C11  Per-document error isolation: when a document of one of the four   *)
(* loops cannot be read or parsed, its iteration appends exactly one error *)
(* string naming the file and the loop goes on to the files still queued;  *)
(* no iteration appends more than one error, and an error it appends names *)
(* its file. After a run that returns, every unreadable document has       *)
(* exactly one error naming it and every readable document has its row.    *)
(***************************************************************************)
DocPhases == {"games", "studios", "publishers", "designers"}

Contains(s, sub) ==
  \E k \in 1..(Len(s) - Len(sub) + 1) : SubSeq(s, k, k + Len(sub) - 1) = sub

ErrorsNaming(errors, path) == {n \in DOMAIN errors : Contains(errors[n], path)}

IterationIsolatesError ==
  \A kind \in DocPhases :
    pc = kind =>
      LET filePath == Head(todo[kind])
          added == Len(report'.errors) - Len(report.errors)
      IN /\ added \in {0, 1}
         /\ SubSeq(report'.errors, 1, Len(report.errors)) = report.errors
         /\ added = 1 => Contains(report'.errors[Len(report'.errors)], filePath)
         /\ corpus[kind][slugFromPath(filePath)].kind = "throw" => added = 1
         /\ todo'[kind] = Tail(todo[kind])
         /\ pc' # "idle"
         /\ Len(todo'[kind]) > 0 => pc' = kind

RunSurvivesErrors ==
  \A i \in Runs :
    Returned(i) =>
      \A kind \in DocPhases : \A slug \in Slugs(kind) :
        LET doc == hist[i].corpus[kind][slug]
        IN /\ doc.kind = "throw" =>
                Cardinality(ErrorsNaming(hist[i].report.errors, FilePath(kind, slug))) = 1
           /\ doc.kind = "md" => slug \in DOMAIN hist[i].after[kind]

ErrorIsolation == []RunSurvivesErrors /\ [][IterationIsolatesError]_vars

\* a run returned after the first game document raised: the second game
\* document has its row and the report holds the one error
ErrorIsolationWitness ==
  \E i \in Runs :
    /\ Returned(i)
    /\ hist[i].corpus.games["G1"] = BadFile
    /\ hist[i].corpus.games["G2"].kind = "md"
    /\ "G2" \in DOMAIN hist[i].after.games
    /\ "G1" \notin DOMAIN hist[i].after.games
    /\ Len(hist[i].report.errors) = 1

(***************************************************************************)
(* C12  lastSyncedAt frame: a run changes the lastSyncedAt of a row that   *)
(* existed before it only if the entity's document yields a row and some   *)
(* compared column of that row differs from the stored one; a different    *)
(* provenance path or a later clock alone leaves the timestamp as it was.  *)
(***************************************************************************)
ComparedColumnsDiffer(stored, kind, slug, doc) ==
  /\ HasRow(kind, doc)
  /\ \E f \in ContentColumns(kind) :
       toDriverCell(f, RowOf(kind, slug, doc)[f]) # stored[f]

TimestampFrame ==
  \A i \in Runs : \A kind \in DocPhases :
    \A slug \in DOMAIN Before(i)[kind] \cap DOMAIN hist[i].after[kind] :
      hist[i].after[kind][slug].lastSyncedAt # Before(i)[kind][slug].lastSyncedAt =>
        ComparedColumnsDiffer(Before(i)[kind][slug], kind, slug, hist[i].corpus[kind][slug])

\* a later run read the document of a studio whose row was made from a
\* reference: only the provenance path differs, and the row kept its timestamp
TimestampFrameWitness ==
  \E i \in Runs :
    /\ Returned(i)
    /\ "S1" \in DOMAIN Before(i).studios
    /\ Before(i).studios["S1"].sourceFile = Str("(referenced)")
    /\ Validates("studios", hist[i].corpus.studios["S1"])
    /\ ~ComparedColumnsDiffer(Before(i).studios["S1"], "studios", "S1",
                              hist[i].corpus.studios["S1"])
    /\ hist[i].after.studios["S1"] = Before(i).studios["S1"]

(***************************************************************************)
(* C13  Entity rows are never deleted: whatever was edited or removed in   *)
(* the corpus, every slug that had a row in the games, studios, publishers *)
(* or designers table before a run has one after it.                       *)
(***************************************************************************)
EntityRowsKept ==
  \A i \in Runs : \A kind \in EntityTables :
    DOMAIN Before(i)[kind] \subseteq DOMAIN hist[i].after[kind]

\* a run returned after the document of a game was removed and after its
\* catalog went away: the rows are still there
EntityRowsKeptWitness ==
  \E i \in Runs :
    /\ Returned(i)
    /\ hist[i].corpus.games["G1"] = NoFile
    /\ ~InCatalog(hist[i].corpus, "G1")
    /\ "G1" \in DOMAIN Before(i).games
    /\ "G1" \in DOMAIN hist[i].after.games

(***************************************************************************)
(* C14  Update on re-parse: after a run that returns, a row that existed   *)
(* before the run holds the values its source yields now: the row of the   *)
(* entity's document when the document yields one, and, for a game row     *)
(* that came from the catalog and has no document, the status and platform *)
(* of its catalog entry.                                                   *)
(***************************************************************************)
DocumentReparseUpdates ==
  \A i \in Runs : \A kind \in DocPhases : \A slug \in DOMAIN Before(i)[kind] :
    (Returned(i) /\ HasRow(kind, hist[i].corpus[kind][slug])) =>
      \A f \in ContentColumns(kind) :
        hist[i].after[kind][slug][f] =
          toDriverCell(f, RowOf(kind, slug, hist[i].corpus[kind][slug])[f])

FirstEntry(c, slug) ==
  LET entries == CatalogEntries(c)
      n == CHOOSE n \in DOMAIN entries :
             /\ entries[n].slug = slug
             /\ \A k \in 1..(n - 1) : entries[k].slug # slug
  IN entries[n].row

CatalogReparseUpdates ==
  \A i \in Runs : \A slug \in DOMAIN Before(i).games :
    (/\ Returned(i)
     /\ Before(i).games[slug].sourceFile = Str("lib/games.csv")
     /\ hist[i].corpus.games[slug] = NoFile
     /\ InCatalog(hist[i].corpus, slug)) =>
      /\ hist[i].after.games[slug].status = FirstEntry(hist[i].corpus, slug).status
      /\ hist[i].after.games[slug].platform = FirstEntry(hist[i].corpus, slug).platform

UpdateOnReparse == DocumentReparseUpdates /\ CatalogReparseUpdates

(***************************************************************************)
(* C15  Catalog unavailable: when the catalog file cannot be read, the run *)
(* starts its transaction with no catalog entry and one error in its       *)
(* report, and the catalog loop writes nothing; a run that returns then    *)
(* has exactly one catalog error, has processed the documents, and has     *)
(* added no row whose provenance is the catalog.                           *)
(***************************************************************************)
CatalogUnreadable(c) == c.csv.kind # "text"

CatalogErrors(errors) == {n \in DOMAIN errors : startsWith(errors[n], "CSV parse error")}

RunStartsWithoutCatalog ==
  /\ (pc = "idle" /\ pc' # "idle" /\ CatalogUnreadable(corpus)) =>
       /\ csvGames' = <<>>
       /\ Len(report'.errors) = 1
       /\ CatalogErrors(report'.errors) = {1}
  /\ (pc = "csv" /\ pc' # "idle" /\ CatalogUnreadable(corpus)) => db' = db

RunWithoutCatalog ==
  \A i \in Runs :
    (Returned(i) /\ CatalogUnreadable(hist[i].corpus)) =>
      /\ Cardinality(CatalogErrors(hist[i].report.errors)) = 1
      /\ \A kind \in DocPhases : \A slug \in Slugs(kind) :
           hist[i].corpus[kind][slug].kind = "md" => slug \in DOMAIN hist[i].after[kind]
      /\ \A g \in DOMAIN hist[i].after.games \ DOMAIN Before(i).games :
           hist[i].after.games[g].sourceFile # Str("lib/games.csv")

CatalogUnavailable == []RunWithoutCatalog /\ [][RunStartsWithoutCatalog]_vars

\* a run returned without a catalog file: the game document has its row and
\* the report holds the one error
CatalogUnavailableWitness ==
  \E i \in Runs :
    /\ Returned(i)
    /\ CatalogUnreadable(hist[i].corpus)
    /\ hist[i].corpus.games["G1"].kind = "md"
    /\ "G1" \in DOMAIN hist[i].after.games
    /\ Len(hist[i].report.errors) = 1

(***************************************************************************)
(* The field transforms on their own: a status or a release value as the   *)
(* front matter can carry it (absent, null, a date, or a string with up to *)
(* MaxPad blanks on either side) is given to its transform.                *)
(***************************************************************************)
MaxPad == 1

RECURSIVE Blanks(_)
Blanks(n) == IF n = 0 THEN "" ELSE " " \o Blanks(n - 1)

Padded(words) == {Str(Blanks(a) \o w \o Blanks(b)) : w \in words, a \in 0..MaxPad, b \in 0..MaxPad}

StatusWords ==
  {"finished", "Finished", "FINISHED", "started", "Started", "bought", "Bought",
   "not started", "Not Started", "not startedv", "not start", "Not Start again",
   "not star", "not finished", "Not Finished", "not finishedx", "notstarted",
   "finishedx", "startedd", "playing", "dropped", ""}
StatusInputs == {Undef, NullV} \cup Padded(StatusWords)

ReleaseWords ==
  {"2021-03-04", "YYYY-MM-DD", "yyyy-mm-dd", "", "March 2021", "2021/03/04", "TBA"}
ReleaseInputs == {Undef, NullV, DateV(0), DateV(7)} \cup Padded(ReleaseWords)

InitFields ==
  /\ \/ \E v \in StatusInputs : corpus = [field |-> "status", value |-> v]
     \/ \E v \in ReleaseInputs : corpus = [field |-> "release", value |-> v]
  /\ db = EmptyDb
  /\ snapshot = EmptyDb
  /\ pc = "idle"
  /\ todo = <<>>
  /\ csvGames = <<>>
  /\ report = EmptyReport
  /\ referenced = EmptyReferenced
  /\ now = 0
  /\ edits = 0
  /\ conn = 0
  /\ hist = <<>>

\* statusSchema applied to the status key of a front matter block
ValidateStatus ==
  /\ pc = "idle"
  /\ corpus.field = "status"
  /\ report' = [data |-> statusSchema(corpus.value)]
  /\ pc' = "validated"
  /\ UNCHANGED <<corpus, db, snapshot, todo, csvGames, referenced, now, edits, conn, hist>>

\* the release transform applied to the release key of a front matter block
ValidateRelease ==
  /\ pc = "idle"
  /\ corpus.field = "release"
  /\ report' = [data |-> releaseSchema(corpus.value)]
  /\ pc' = "validated"
  /\ UNCHANGED <<corpus, db, snapshot, todo, csvGames, referenced, now, edits, conn, hist>>

NextFields == ValidateStatus \/ ValidateRelease

SpecFields == InitFields /\ [][NextFields]_vars

(***************************************************************************)
(* C16  Status normalization: with the input trimmed and lower-cased,      *)
(* finished, started and bought give themselves, a value beginning with    *)
(* "not start" gives not started, not finished gives started, and any      *)
(* other value, the empty and the absent one included, gives absent; so    *)
(* "Finished", " started ", "not startedv" and "not finished" give         *)
(* finished, started, not started and started.                             *)
(***************************************************************************)
StatusExpected(v) ==
  LET n == IF IsStr(v) THEN toLowerCase(trim(v.val)) ELSE ""
  IN IF n \in {"finished", "started", "bought"} THEN Str(n)
     ELSE IF startsWith(n, "not start") THEN Str("not started")
     ELSE IF n = "not finished" THEN Str("started")
     ELSE NullV

StatusNormalization ==
  /\ (pc = "validated" /\ corpus.field = "status") =>
       report.data = StatusExpected(corpus.value)
  /\ statusSchema(Str("Finished")) = Str("finished")
  /\ statusSchema(Str(" started ")) = Str("started")
  /\ statusSchema(Str("not startedv")) = Str("not started")
  /\ statusSchema(Str("not finished")) = Str("started")

\* a padded, capitalised value with a trailing typo was normalized
StatusNormalizationWitness ==
  /\ pc = "validated"
  /\ corpus.field = "status"
  /\ corpus.value = Str(" Not Start again ")
  /\ report.data = Str("not started")

(***************************************************************************)
(* C18  Release date normalization: a date value gives its YYYY-MM-DD      *)
(* string, the placeholder YYYY-MM-DD and the empty string (blanks around  *)
(* them set aside) give absent, and every other string gives an ISO        *)
(* YYYY-MM-DD string.                                                      *)
(***************************************************************************)
IsDigit(c) == c \in {"0", "1", "2", "3", "4", "5", "6", "7", "8", "9"}

IsIsoDate(s) ==
  /\ Len(s) = 10
  /\ \A k \in {1, 2, 3, 4, 6, 7, 9, 10} : IsDigit(Char(s, k))
  /\ Char(s, 5) = "-"
  /\ Char(s, 8) = "-"

ReleaseNormalization ==
  (pc = "validated" /\ corpus.field = "release") =>
    LET v == corpus.value
    IN /\ v.tag = "date" =>
            /\ report.data = Str(SubSeq(toISOString(v.val), 1, 10))
            /\ IsIsoDate(report.data.val)
       /\ (IsStr(v) /\ trim(v.val) \in {"YYYY-MM-DD", ""}) => report.data = NullV
       /\ (IsStr(v) /\ trim(v.val) \notin {"YYYY-MM-DD", ""}) =>
            /\ IsStr(report.data)
            /\ IsIsoDate(report.data.val)

(***************************************************************************)
(* parser.ts: splitContentSections                                         *)
(***************************************************************************)
RECURSIVE HashRun(_, _)
HashRun(s, p) == IF p <= Len(s) /\ Char(s, p) = "#" THEN 1 + HashRun(s, p + 1) ELSE 0

RECURSIVE SpaceRun(_, _)
SpaceRun(s, p) == IF p <= Len(s) /\ IsSpace(Char(s, p)) THEN 1 + SpaceRun(s, p + 1) ELSE 0

\* the position of the first line break at or after p, or one past the end
RECURSIVE LineEnd(_, _)
LineEnd(s, p) == IF p > Len(s) \/ Char(s, p) = "\n" THEN p ELSE LineEnd(s, p + 1)

\* a match of #{1,3}\s+(.+)$ that starts at position p: one to three #, then
\* the longest run of white space that still leaves a character of the line
\* for the group, then the rest of that line
headingAt(s, p) ==
  LET hashes == HashRun(s, p)
      blanks == SpaceRun(s, p + hashes)
      fits == {k \in 1..blanks :
                 p + hashes + k <= Len(s) /\ Char(s, p + hashes + k) # "\n"}
  IN IF hashes \notin 1..3 \/ fits = {} THEN [found |-> FALSE]
     ELSE LET k == CHOOSE k \in fits : \A l \in fits : l <= k
              from == p + hashes + k
          IN [found |-> TRUE, to |-> LineEnd(s, from),
              group |-> SubSeq(s, from, LineEnd(s, from) - 1)]

\* the loop over headingRegex.exec(content), /^#{1,3}\s+(.+)$/gm, from position p:
\* name is the trimmed lower-cased group, index the offset just after the match
RECURSIVE headingsFrom(_, _)
headingsFrom(s, p) ==
  IF p > Len(s) THEN <<>>
  ELSE IF (p = 1 \/ Char(s, p - 1) = "\n") /\ headingAt(s, p).found
  THEN <<[name |-> toLowerCase(trim(headingAt(s, p).group)),
          index |-> headingAt(s, p).to - 1]>>
       \o headingsFrom(s, headingAt(s, p).to)
  ELSE headingsFrom(s, p + 1)

\* s.match(/#{1,3}\s+.+$/m)?.[0]?.length ?? 0: the length of the first match
\* anywhere in s
RECURSIVE firstMatchLength(_, _)
firstMatchLength(s, p) ==
  IF p > Len(s) THEN 0
  ELSE IF headingAt(s, p).found THEN headingAt(s, p).to - p
  ELSE firstMatchLength(s, p + 1)

\* content.slice(start, end) with offsets counted from 0
slice(s, start, end) == SubSeq(s, start + 1, end)

\* the end offset the loop computes for the section of heading i
sectionEnd(content, headings, i) ==
  IF i + 1 <= Len(headings)
  THEN headings[i + 1].index
         - firstMatchLength(slice(content, 0, headings[i + 1].index), 1)
  ELSE Len(content)

\* the sections object after the first n headings
RECURSIVE sectionsAfter(_, _, _)
sectionsAfter(content, headings, n) ==
  IF n = 0 THEN <<>>
  ELSE LET sections == sectionsAfter(content, headings, n - 1)
           sectionContent ==
             trim(slice(content, headings[n].index, sectionEnd(content, headings, n)))
       IN IF sectionContent = "" THEN sections
          ELSE [k \in DOMAIN sections \cup {headings[n].name} |->
                  IF k = headings[n].name THEN sectionContent ELSE sections[k]]

splitContentSections(content) ==
  LET headings == headingsFrom(content, 1)
  IN sectionsAfter(content, headings, Len(headings))

(***************************************************************************)
(* The section splitter on its own: a body is an optional preface and up   *)
(* to MaxHeadings headings of level 1 to 3 with distinct titles, each      *)
(* followed by its text; splitContentSections reads the rendered body.     *)
(***************************************************************************)
MaxHeadings == 2

Titles == {"Gameplay", "Notes", "My Review"}
Texts == {"", "fun", "line one\nline two"}
Prefaces == {"", "intro\n"}
Blocks == [level : 1..3, title : Titles, text : Texts]
Bodies ==
  {[preface |-> p, blocks |-> b] :
     p \in Prefaces,
     b \in {b \in UNION {[1..n -> Blocks] : n \in 0..MaxHeadings} :
              \A i \in DOMAIN b : \A j \in DOMAIN b : i # j => b[i].title # b[j].title}}

RECURSIVE Hashes(_)
Hashes(n) == IF n = 0 THEN "" ELSE "#" \o Hashes(n - 1)

RenderBlock(block) == Hashes(block.level) \o " " \o block.title \o "\n" \o block.text \o "\n"

RECURSIVE RenderBlocks(_, _)
RenderBlocks(blocks, k) ==
  IF k > Len(blocks) THEN "" ELSE RenderBlock(blocks[k]) \o RenderBlocks(blocks, k + 1)

RenderBody(body) == body.preface \o RenderBlocks(body.blocks, 1)

InitSections ==
  /\ \E body \in Bodies : corpus = [body |-> body, content |-> RenderBody(body)]
  /\ db = EmptyDb
  /\ snapshot = EmptyDb
  /\ pc = "idle"
  /\ todo = <<>>
  /\ csvGames = <<>>
  /\ report = EmptyReport
  /\ referenced = EmptyReferenced
  /\ now = 0
  /\ edits = 0
  /\ conn = 0
  /\ hist = <<>>

\* const sections = splitContentSections(content)
SplitSections ==
  /\ pc = "idle"
  /\ report' = [sections |-> splitContentSections(corpus.content)]
  /\ pc' = "split"
  /\ UNCHANGED <<corpus, db, snapshot, todo, csvGames, referenced, now, edits, conn, hist>>

NextSections == SplitSections

SpecSections == InitSections /\ [][NextSections]_vars

(***************************************************************************)
(* C17  Section splitting: every heading of level 1 to 3 whose text is not *)
(* empty yields a section keyed by the heading's trimmed lower-cased title *)
(* and holding exactly the trimmed text between that heading line and the  *)
(* next one (or the end), whatever the lengths of the heading lines; there *)
(* is no other section, and a body without headings yields none.           *)
(***************************************************************************)
SectionSplitting ==
  pc = "split" =>
    LET blocks == corpus.body.blocks
        filled == {i \in DOMAIN blocks : trim(blocks[i].text) # ""}
    IN /\ DOMAIN report.sections = {toLowerCase(trim(blocks[i].title)) : i \in filled}
       /\ \A i \in filled :
            report.sections[toLowerCase(trim(blocks[i].title))] = trim(blocks[i].text)

(***************************************************************************)
(* C19  Game-side junction state is a function of the current documents:   *)
(* after a run that returns without an error, for every game with a valid  *)
(* document the game-studio rows of that game are exactly the pairs its    *)
(* developer list and the games lists of the valid studio documents        *)
(* declare, whatever rows it had before; likewise for game-publisher rows. *)
(***************************************************************************)
RowsOwnedBy(d, table, g) == {p \in BagToSet(d[table]) : p[1] = g}

GameJunctionsFollowDocuments ==
  \A i \in Runs :
    (Returned(i) /\ hist[i].report.errors = <<>>) =>
      \A g \in GameSlugs : \A table \in {"gameDevelopers", "gamePublishers"} :
        Validates("games", hist[i].corpus.games[g]) =>
          RowsOwnedBy(hist[i].after, table, g)
            = {p \in Declared(hist[i].corpus, table) : p[1] = g}

\* a game had a studio row before the run and its document no longer names
\* the studio: the row is gone after the run
GameJunctionsFollowDocumentsWitness ==
  \E i \in Runs :
    /\ Returned(i) /\ hist[i].report.errors = <<>>
    /\ Validates("games", hist[i].corpus.games["G1"])
    /\ <<"G1", "S1">> \in RowsOwnedBy(Before(i), "gameDevelopers", "G1")
    /\ RowsOwnedBy(hist[i].after, "gameDevelopers", "G1") = {}

(***************************************************************************)
(* C20  Owner-side full replacement each pass: after a run that returns,   *)
(* for every studio (publisher) whose valid document was processed without *)
(* an error, the studio-studio (publisher-studio) rows that slug owns are  *)
(* exactly the pairs of the document's studios list, also when the list is *)
(* empty.                                                                  *)
(***************************************************************************)
OwnerTable(kind) == IF kind = "studios" THEN "relatedStudios" ELSE "publisherStudios"

OwnerListsReplaced ==
  \A i \in Runs : \A kind \in {"studios", "publishers"} : \A slug \in Slugs(kind) :
    (/\ Returned(i)
     /\ Validates(kind, hist[i].corpus[kind][slug])
     /\ ErrorsNaming(hist[i].report.errors, FilePath(kind, slug)) = {}) =>
      RowsOwnedBy(hist[i].after, OwnerTable(kind), slug)
        = DeclaredBy(hist[i].corpus, kind, slug, OwnerTable(kind))

(***************************************************************************)
(* C21  Reverse side is insert-only: an iteration of the studio loop (of   *)
(* the publisher loop) removes no row of the game-studio (game-publisher)  *)
(* table and leaves the other of the two tables alone; the rows it adds    *)
(* are exactly the pairs (listed game, own slug) of its valid document     *)
(* that the table did not hold.                                            *)
(***************************************************************************)
ReverseTable(kind) == IF kind = "studios" THEN "gameDevelopers" ELSE "gamePublishers"

ReverseInsertOnly ==
  \A kind \in {"studios", "publishers"} :
    pc = kind =>
      LET slug == slugFromPath(Head(todo[kind]))
          table == ReverseTable(kind)
          other == CHOOSE t \in {"gameDevelopers", "gamePublishers"} : t # table
          listed == DeclaredBy(corpus, kind, slug, table)
      IN /\ \A p \in BagToSet(db[table]) : CopiesIn(p, db'[table]) >= CopiesIn(p, db[table])
         /\ BagToSet(db'[table]) = BagToSet(db[table]) \cup listed
         /\ \A p \in listed \ BagToSet(db[table]) : CopiesIn(p, db'[table]) = 1
         /\ db'[other] = db[other]

ReverseSideInsertOnly == [][ReverseInsertOnly]_vars

\* the studio loop has added the pair of a game its document lists, a pair
\* the game's own document does not declare and the store did not hold
ReverseSideInsertOnlyWitness ==
  /\ pc \in {"publishers", "designers", "stubs", "commit"}
  /\ <<"G1", "S1">> \in DeclaredBy(corpus, "studios", "S1", "gameDevelopers")
  /\ <<"G1", "S1">> \notin DeclaredBy(corpus, "games", "G1", "gameDevelopers")
  /\ CopiesIn(<<"G1", "S1">>, snapshot.gameDevelopers) = 0
  /\ CopiesIn(<<"G1", "S1">>, db.gameDevelopers) = 1

(***************************************************************************)
(* C22  Stub path frame for games: when the game loop reads a document     *)
(* that fails validation and a game row of its slug exists, the iteration  *)
(* leaves that row (content, provenance, lastSyncedAt) and the game's      *)
(* developer and publisher rows as they were, adds nothing to the pending  *)
(* reference sets, and increments gamesProcessed and neither created nor   *)
(* updated.                                                                *)
(***************************************************************************)
FailsValidation(kind, doc) == doc.kind = "md" /\ ~Validates(kind, doc)

StubPathKeepsGame ==
  pc = "games" =>
    LET slug == slugFromPath(Head(todo.games))
    IN (FailsValidation("games", corpus.games[slug]) /\ slug \in DOMAIN db.games) =>
         /\ slug \in DOMAIN db'.games
         /\ db'.games[slug] = db.games[slug]
         /\ \A table \in {"gameDevelopers", "gamePublishers"} :
              /\ RowsOwnedBy(db', table, slug) = RowsOwnedBy(db, table, slug)
              /\ \A p \in RowsOwnedBy(db, table, slug) :
                   CopiesIn(p, db'[table]) = CopiesIn(p, db[table])
         /\ referenced' = referenced
         /\ report'.gamesProcessed = report.gamesProcessed + 1
         /\ report'.created = report.created
         /\ report'.updated = report.updated

StubPathFrame == [][StubPathKeepsGame]_vars

\* the game loop has read a document without its class over a row an
\* earlier run made from a valid document with a developer
StubPathFrameWitness ==
  /\ pc = "csv"
  /\ FailsValidation("games", corpus.games["G1"])
  /\ "G1" \in DOMAIN snapshot.games
  /\ snapshot.games["G1"].sourceFile = Str(gameFilePath("G1"))
  /\ snapshot.games["G1"].status = Str("finished")
  /\ db.games["G1"] = snapshot.games["G1"]
  /\ RowsOwnedBy(db, "gameDevelopers", "G1") = {<<"G1", "S1">>}
  /\ report.gamesProcessed = 1 /\ report.created = 0 /\ report.updated = 0

(***************************************************************************)
(* C23  Symmetric validation-failure handling: when the studio loop or the *)
(* publisher loop reads a document that fails validation and a row of its  *)
(* slug exists, the iteration leaves the compared columns of that row (a   *)
(* studio's director, the overview text) as they were and appends no       *)
(* change record.                                                          *)
(***************************************************************************)
FailedDocumentKeepsRow ==
  \A kind \in {"studios", "publishers"} :
    pc = kind =>
      LET slug == slugFromPath(Head(todo[kind]))
      IN (FailsValidation(kind, corpus[kind][slug]) /\ slug \in DOMAIN db[kind]) =>
           /\ \A f \in ContentColumns(kind) : db'[kind][slug][f] = db[kind][slug][f]
           /\ report'.changes = report.changes
           /\ report'.updated = report.updated

SymmetricValidationFailure == [][FailedDocumentKeepsRow]_vars

(***************************************************************************)
(* C24  Connection lifecycle: when a run has ended, by the return of its   *)
(* report or by the exception of its transaction, the store connection it  *)
(* opened is closed: between runs no connection is open.                   *)
(***************************************************************************)
ConnectionLifecycle == pc = "idle" => conn = 0

(***************************************************************************)
(* C25  Store fixed point: when two consecutive runs both return and the   *)
(* corpus is the same in both, the store after the second run is the store *)
(* after the first: every entity row with its provenance and lastSyncedAt  *)
(* and every junction row, also when documents raise errors the loops      *)
(* catch in both runs.                                                     *)
(***************************************************************************)
StoreFixedPoint ==
  \A i \in Runs : \A j \in Runs :
    (Consecutive(i, j) /\ hist[j].corpus = hist[i].corpus) =>
      hist[j].after = hist[i].after

\* a rerun over an unchanged corpus in which a game document names its
\* developer twice: both runs caught its error and the store is the same
StoreFixedPointWitness ==
  \E i \in Runs : \E j \in Runs :
    /\ Consecutive(i, j) /\ hist[j].corpus = hist[i].corpus
    /\ ErrorsNaming(hist[i].report.errors, gameFilePath("G1")) # {}
    /\ ErrorsNaming(hist[j].report.errors, gameFilePath("G1")) # {}
    /\ Validates("games", hist[j].corpus.games["G1"])
    /\ "G1" \in DOMAIN hist[j].after.games
    /\ "S1" \in DOMAIN hist[j].after.studios
    /\ hist[j].after = hist[i].after

(***************************************************************************)
(* C26  No partial writes from a failed document: an iteration of a        *)
(* document loop whose error the loop's handler catches leaves the store   *)
(* and the report's counters and change records as they were before the    *)
(* iteration (nothing later in the transaction undoes a write, so what the *)
(* iteration leaves is what the run commits).                              *)
(***************************************************************************)
ReportCounters(r) ==
  <<r.gamesProcessed, r.studiosProcessed, r.publishersProcessed, r.designersProcessed,
    r.created, r.updated, r.unchanged, r.changes>>

FailedIterationWritesNothing ==
  \A kind \in DocPhases :
    (pc = kind /\ Len(report'.errors) > Len(report.errors)) =>
      /\ db' = db
      /\ ReportCounters(report') = ReportCounters(report)

NoPartialWrites == [][FailedIterationWritesNothing]_vars

(***************************************************************************)
(* C27  Junction-only edits are invisible to the report: when between two  *)
(* consecutive returned runs one game document changes and every compared  *)
(* field of its normalized row stays equal (only its developer or          *)
(* publisher list can have changed), the second run reports no change      *)
(* record, nothing created or updated and the game as unchanged, the game  *)
(* row keeps its lastSyncedAt and provenance, and, when the document       *)
(* raised no error, the game's junction rows are those of the new lists.   *)
(***************************************************************************)
JunctionOnlyEdit(i, j, g) ==
  /\ Consecutive(i, j)
  /\ DifferOnlyAt(hist[i].corpus, hist[j].corpus, "games", g)
  /\ Validates("games", hist[i].corpus.games[g])
  /\ Validates("games", hist[j].corpus.games[g])
  /\ ChangedFields("games", g, hist[i].corpus.games[g], hist[j].corpus.games[g]) = {}

ProvenanceFollowsDocument ==
  \A i \in Runs : \A kind \in {"studios", "publishers", "designers"} : \A slug \in Slugs(kind) :
    (/\ Returned(i)
     /\ hist[i].corpus[kind][slug].kind = "md"
     /\ ErrorsNaming(hist[i].report.errors, FilePath(kind, slug)) = {}) =>
      /\ slug \in DOMAIN hist[i].after[kind]
      /\ hist[i].after[kind][slug].sourceFile = Str(FilePath(kind, slug))

(***************************************************************************)
(* C29  Report counter consistency: after a run that returns with an empty *)
(* error list, created + updated + unchanged equals the sum of the four    *)
(* processed counters, and created equals the number of entity rows the    *)
(* store holds after the run and did not hold before it.                   *)
(***************************************************************************)
RowsAdded(i) ==
  Cardinality(UNION {{<<kind, s>> : s \in DOMAIN hist[i].after[kind] \ DOMAIN Before(i)[kind]} :
                       kind \in EntityTables})

OutcomesMatchProcessed ==
  \A i \in Runs :
    (Returned(i) /\ hist[i].report.errors = <<>>) =>
      hist[i].report.created + hist[i].report.updated + hist[i].report.unchanged
        = hist[i].report.gamesProcessed + hist[i].report.studiosProcessed
          + hist[i].report.publishersProcessed + hist[i].report.designersProcessed

CreatedCountsNewRows ==
  \A i \in Runs :
    (Returned(i) /\ hist[i].report.errors = <<>>) => hist[i].report.created = RowsAdded(i)

ReportCounterConsistency == OutcomesMatchProcessed /\ CreatedCountsNewRows

====
